---- MODULE Spec2Model ----
(***************************************************************************)
(* Calorie_Bot: the conversation orchestrator (src/agents/orchestrator.py) *)
(* and the nutrition resolution chain (src/agents/nutrition_lookup.py).    *)
(*                                                                         *)
(* Nutrient amounts are integers in thousandths (95126 is 95.126), so that *)
(* Python's round(x, 2) is a real operation of the model.                  *)
(***************************************************************************)
EXTENDS Integers, Sequences, FiniteSets, TLC

VARIABLES pc, st, trace, calls, result, turns,
          users, food_logs, history,
          now, buckets,
          lk, rl, rt, qr

turnVars == <<pc, st, trace, calls, result, turns>>
storeVars == <<users, food_logs, history>>
rateVars == <<now, buckets>>
vars == <<pc, st, trace, calls, result, turns, users, food_logs, history, now, buckets, lk, rl, rt, qr>>

(***************************************************************************)
(* Bounds of the model.                                                    *)
(***************************************************************************)
MaxFoods == 2
MaxTurns == 1
MaxTime == 90
MaxOtherCalls == 1
MaxThreads == 2

(***************************************************************************)
(* Python values that have no TLA+ counterpart.                            *)
(***************************************************************************)
None == "<None>"
Missing == "<missing>"
END == "__end__"
Absent == -1

\* the sequences over S of length at most n
SeqsUpTo(S, n) == UNION {[1..k -> S] : k \in 0..n}

\* dict.get(key, default) on a key that may be missing
Get(v, default) == IF v = Missing THEN default ELSE v

\* dict.get(key, 0) on a nutrient that may be missing
GetNum(v) == IF v = Absent THEN 0 ELSE v

\* round(n / d) to the nearest integer, ties to even (n >= 0, d > 0)
RoundHalfEven(n, d) ==
    LET q == n \div d
        r == n % d
    IN  IF 2 * r < d THEN q
        ELSE IF 2 * r > d THEN q + 1
        ELSE IF q % 2 = 0 THEN q ELSE q + 1

\* round(x, 2) of an amount in thousandths
Round2(v) == 10 * RoundHalfEven(v, 10)

(***************************************************************************)
(* USDAService.calculate_nutrition_for_serving: grams of a quantity+unit.  *)
(***************************************************************************)
KnownUnits == {"g", "kg", "cup", "slice", "serving", "medium"}

all_units(u) ==
    CASE u = "g" -> 1
      [] u = "kg" -> 1000
      [] u = "cup" -> 240
      [] u = "slice" -> 30
      [] u = "serving" -> 100
      [] u = "medium" -> 130

\* unit.lower().strip(), on the units the model draws
unit_lower(unit) ==
    CASE unit = "Cup" -> "cup"
      [] unit = "CUP" -> "cup"
      [] unit = " cup " -> "cup"
      [] unit = "KG" -> "kg"
      [] unit = "Slice " -> "slice"
      [] unit = "Blob" -> "blob"
      [] OTHER -> unit

\* a plausible bug: a quantity of exactly 2 counts as pieces, not as servings
GramsBelowTwo(quantity, unit) ==
    IF unit_lower(unit) \in KnownUnits THEN quantity * all_units(unit_lower(unit))
    ELSE IF quantity < 2 THEN quantity * 100
    ELSE quantity * 30

Grams(quantity, unit) ==
    IF unit_lower(unit) \in KnownUnits THEN quantity * all_units(unit_lower(unit))
    ELSE IF quantity <= 2 THEN quantity * 100
    ELSE quantity * 30

\* one nutrient of the candidate (per 100 g, thousandths) scaled to the serving
Scale(per100, grams) == 10 * RoundHalfEven(per100 * grams, 1000)

\* unit.lower() raises on a unit that is no string
ServingRaises(unit) == unit = None

calculate_nutrition_for_serving(food_data, quantity, unit) ==
    LET grams == Grams(quantity, unit)
    IN  [calories |-> Scale(GetNum(food_data.calories), grams),
         protein  |-> Scale(GetNum(food_data.protein), grams),
         carbs    |-> Scale(GetNum(food_data.carbs), grams),
         fat      |-> Scale(GetNum(food_data.fat), grams),
         fiber    |-> Scale(GetNum(food_data.fiber), grams),
         sugar    |-> Scale(GetNum(food_data.sugar), grams),
         grams    |-> Round2(1000 * grams)]

(***************************************************************************)
(* The collaborators' answers for one food item.                           *)
(*   db: USDAService.search_foods - raises, returns no candidate, or       *)
(*       returns a best candidate (per-100 g nutrients; match is what      *)
(*       _calculate_match_confidence gives for the name and description).  *)
(*   ai: the chat model's reply to the estimation prompt.                  *)
(***************************************************************************)
Candidates ==
    {[calories |-> 52000, protein |-> 260, carbs |-> 13815, fat |-> 170,
      fiber |-> 2400, sugar |-> Absent],
     [calories |-> 0, protein |-> 0, carbs |-> 0, fat |-> 0,
      fiber |-> Absent, sugar |-> Absent]}

NoCandidate ==
    [calories |-> 0, protein |-> 0, carbs |-> 0, fat |-> 0, fiber |-> Absent, sugar |-> Absent]

DBOutcomes ==
    {[kind |-> "raise", best |-> NoCandidate, match |-> "low"],
     [kind |-> "empty", best |-> NoCandidate, match |-> "low"]}
    \cup [kind : {"hit"}, best : Candidates, match : {"high", "medium", "low"}]

AIReply(shape, unknown, cal_kind, calories, protein_kind, protein) ==
    [shape |-> shape, unknown |-> unknown, cal_kind |-> cal_kind, calories |-> calories,
     protein_kind |-> protein_kind, protein |-> protein, carbs |-> 25126, fat |-> 300]

AIOutcomes ==
    {AIReply("raise", FALSE, "missing", 0, "num", 0),
     AIReply("malformed", FALSE, "missing", 0, "num", 0),
     AIReply("notdict", FALSE, "missing", 0, "num", 0),
     AIReply("object", TRUE, "num", 0, "num", 0),
     AIReply("object", TRUE, "num", 95126, "num", 500),
     AIReply("object", FALSE, "num", 95126, "num", 500),
     AIReply("object", FALSE, "num", 95126, "missing", 0),
     AIReply("object", FALSE, "num", 95126, "text", 0),
     AIReply("object", FALSE, "num", 0, "num", 0),
     AIReply("object", FALSE, "num", -5000, "num", 0),
     AIReply("object", FALSE, "text", 0, "num", 0),
     AIReply("object", FALSE, "missing", 0, "num", 500)}

(***************************************************************************)
(* NutritionAgent._ai_estimate_nutrition: Optional[Dict]; ok = FALSE is    *)
(* Python's None.  Every exception inside is caught and gives None.        *)
(***************************************************************************)
NoEstimate == [ok |-> FALSE, calories |-> 0, protein |-> 0, carbs |-> 0, fat |-> 0]

\* a plausible bug: a reply carrying the "unknown" signal is used anyway
AiEstimateIgnoringUnknown(ai) ==
    IF ai.shape # "object" THEN NoEstimate
    ELSE IF ai.cal_kind # "num" THEN NoEstimate
    ELSE IF ai.calories > 0
         THEN IF ai.protein_kind = "text" THEN NoEstimate
              ELSE [ok |-> TRUE, calories |-> ai.calories,
                    protein |-> IF ai.protein_kind = "missing" THEN 0 ELSE ai.protein,
                    carbs |-> ai.carbs, fat |-> ai.fat]
    ELSE NoEstimate

_ai_estimate_nutrition(ai) ==
    IF ai.shape # "object" THEN NoEstimate          \* invoke / json.loads / data.get raised
    ELSE IF ai.unknown THEN NoEstimate              \* data.get("unknown")
    ELSE IF ai.cal_kind = "text" THEN NoEstimate    \* "abc" > 0 raises TypeError
    ELSE IF (IF ai.cal_kind = "missing" THEN 0 ELSE ai.calories) > 0
         THEN IF ai.protein_kind = "text" THEN NoEstimate   \* float("abc") raises
              ELSE [ok |-> TRUE, calories |-> ai.calories,
                    protein |-> IF ai.protein_kind = "missing" THEN 0 ELSE ai.protein,
                    carbs |-> ai.carbs, fat |-> ai.fat]
    ELSE NoEstimate

(***************************************************************************)
(* NutritionAgent._create_fallback_food.  A result is                      *)
(* [raised, rec, calls]: raised = TRUE when the Python call raises.        *)
(***************************************************************************)
NoRec ==
    [name |-> Missing, quantity |-> Absent, unit |-> Missing, meal_type |-> Missing,
     calories |-> 0, protein |-> 0, carbs |-> 0, fat |-> 0, fiber |-> Absent, sugar |-> Absent,
     source |-> Missing, confidence |-> Missing]

\* food.copy() followed by update(): the parsed item's own keys are kept
Enrich(food, cal, protein, carbs, fat, fiber, sugar, source, confidence) ==
    [name |-> food.name, quantity |-> food.quantity, unit |-> food.unit,
     meal_type |-> food.meal_type,
     calories |-> cal, protein |-> protein, carbs |-> carbs, fat |-> fat,
     fiber |-> fiber, sugar |-> sugar, source |-> source, confidence |-> confidence]

\* a plausible bug: the unknown record is tagged like an AI estimate
FallbackTaggedAsAI(food, ai) ==
    IF Get(food.name, "") = None
    THEN [raised |-> TRUE, rec |-> NoRec, calls |-> <<>>]
    ELSE LET est == _ai_estimate_nutrition(ai)
         IN  [raised |-> FALSE, calls |-> <<"ai_estimate">>,
              rec |-> IF est.ok
                      THEN Enrich(food, Round2(est.calories), Round2(est.protein),
                                  Round2(est.carbs), Round2(est.fat), Absent, Absent,
                                  "ai_estimated", "medium")
                      ELSE Enrich(food, 0, 0, 0, 0, Absent, Absent, "ai_estimated", "unknown")]

_create_fallback_food(food, ai) ==
    IF Get(food.name, "") = None
    THEN \* food.get("name", "").lower() raises AttributeError before the AI is asked
         [raised |-> TRUE, rec |-> NoRec, calls |-> <<>>]
    ELSE LET est == _ai_estimate_nutrition(ai)
         IN  [raised |-> FALSE, calls |-> <<"ai_estimate">>,
              rec |-> IF est.ok
                      THEN Enrich(food, Round2(est.calories), Round2(est.protein),
                                  Round2(est.carbs), Round2(est.fat), Absent, Absent,
                                  "ai_estimated", "medium")
                      ELSE Enrich(food, 0, 0, 0, 0, Absent, Absent, "estimated", "unknown")]

(***************************************************************************)
(* NutritionAgent._lookup_single_food                                      *)
(***************************************************************************)
\* _calculate_match_confidence: the empty query is a substring of every
\* description; for any other name the tag depends on the description
MatchConfidence(food, db) == IF Get(food.name, "") = "" THEN "high" ELSE db.match

Quantity(food) == IF food.quantity = Absent THEN 1 ELSE food.quantity

\* a plausible bug: the AI is asked first and the database only when it fails
LookupSingleAIFirst(food, db, ai) ==
    LET fb == _create_fallback_food(food, ai)
    IN  IF fb.raised \/ fb.rec.confidence # "unknown" \/ db.kind # "hit"
           \/ ServingRaises(Get(food.unit, "serving"))
        THEN fb
        ELSE LET nutrition == calculate_nutrition_for_serving(
                                  db.best, Quantity(food), Get(food.unit, "serving"))
             IN  [raised |-> FALSE, calls |-> fb.calls \o <<"usda_search">>,
                  rec |-> Enrich(food, nutrition.calories, nutrition.protein,
                                 nutrition.carbs, nutrition.fat, nutrition.fiber,
                                 nutrition.sugar, "usda", MatchConfidence(food, db))]

\* a plausible bug: without a candidate the unknown record is returned at once
LookupSingleNoFallback(food, db, ai) ==
    IF db.kind = "raise"
    THEN [raised |-> TRUE, rec |-> NoRec, calls |-> <<"usda_search">>]
    ELSE IF db.kind = "empty"
    THEN [raised |-> Get(food.name, "") = None, calls |-> <<"usda_search">>,
          rec |-> Enrich(food, 0, 0, 0, 0, Absent, Absent, "estimated", "unknown")]
    ELSE IF ServingRaises(Get(food.unit, "serving")) \/ Get(food.name, "") = None
    THEN [raised |-> TRUE, rec |-> NoRec, calls |-> <<"usda_search">>]
    ELSE LET nutrition == calculate_nutrition_for_serving(
                              db.best, Quantity(food), Get(food.unit, "serving"))
         IN  [raised |-> FALSE, calls |-> <<"usda_search">>,
              rec |-> Enrich(food, nutrition.calories, nutrition.protein,
                             nutrition.carbs, nutrition.fat, nutrition.fiber,
                             nutrition.sugar, "usda", MatchConfidence(food, db))]

_lookup_single_food(food, db, ai) ==
    IF db.kind = "raise"
    THEN [raised |-> TRUE, rec |-> NoRec, calls |-> <<"usda_search">>]
    ELSE IF db.kind = "empty"
    THEN LET fb == _create_fallback_food(food, ai)
         IN  [fb EXCEPT !.calls = <<"usda_search">> \o @]
    ELSE IF ServingRaises(Get(food.unit, "serving")) \/ Get(food.name, "") = None
    THEN \* unit.lower() in the serving calculation, or query.lower() in
         \* _calculate_match_confidence, raises
         [raised |-> TRUE, rec |-> NoRec, calls |-> <<"usda_search">>]
    ELSE LET nutrition == calculate_nutrition_for_serving(
                              db.best, Quantity(food), Get(food.unit, "serving"))
         IN  [raised |-> FALSE, calls |-> <<"usda_search">>,
              rec |-> Enrich(food, nutrition.calories, nutrition.protein,
                             nutrition.carbs, nutrition.fat, nutrition.fiber,
                             nutrition.sugar, "usda", MatchConfidence(food, db))]

(***************************************************************************)
(* NutritionAgent.lookup_nutrition: db[i] and ai[i] are the collaborators' *)
(* answers for item i.  The result is [raised, value, calls]; calls lists  *)
(* <<item index, collaborator>> in the order the calls are made.           *)
(***************************************************************************)
Tag(i, cs) == [k \in 1..Len(cs) |-> <<i, cs[k]>>]

\* one iteration of the loop: the try, and the fallback of the except clause
LookupItem(food, db, ai) ==
    LET first == _lookup_single_food(food, db, ai)
    IN  IF ~first.raised THEN first
        ELSE LET fb == _create_fallback_food(food, ai)
             IN  [fb EXCEPT !.calls = first.calls \o @]

RECURSIVE LookupFrom(_, _, _, _)
LookupFrom(foods, db, ai, i) ==
    IF i > Len(foods) THEN [raised |-> FALSE, value |-> <<>>, calls |-> <<>>]
    ELSE LET item == LookupItem(foods[i], db[i], ai[i])
         IN  IF item.raised
             THEN [raised |-> TRUE, value |-> <<>>, calls |-> Tag(i, item.calls)]
             ELSE LET rest == LookupFrom(foods, db, ai, i + 1)
                  IN  [raised |-> rest.raised,
                       value |-> IF rest.raised THEN <<>> ELSE <<item.rec>> \o rest.value,
                       calls |-> Tag(i, item.calls) \o rest.calls]

lookup_nutrition(foods, db, ai) == LookupFrom(foods, db, ai, 1)

(***************************************************************************)
(* NutritionAgent.calculate_totals                                         *)
(***************************************************************************)
RECURSIVE SumOf(_, _, _)
\* a plausible bug: "=" in the place of "+=", the last item's value stays
SumOfLast(items, field, i) ==
    IF Len(items) = 0 THEN 0 ELSE GetNum(items[Len(items)][field])

SumOf(items, field, i) ==
    IF i > Len(items) THEN 0
    ELSE GetNum(items[i][field]) + SumOf(items, field, i + 1)

calculate_totals(enriched) ==
    [calories |-> Round2(SumOf(enriched, "calories", 1)),
     protein  |-> Round2(SumOf(enriched, "protein", 1)),
     carbs    |-> Round2(SumOf(enriched, "carbs", 1)),
     fat      |-> Round2(SumOf(enriched, "fat", 1)),
     fiber    |-> Round2(SumOf(enriched, "fiber", 1)),
     sugar    |-> Round2(SumOf(enriched, "sugar", 1))]

(***************************************************************************)
(* NutritionAgent._calculate_match_confidence.  A text is a sequence of    *)
(* characters; "B" is an upper-case letter, " " is white space.            *)
(***************************************************************************)
MaxChars == 3

Alphabet == {"a", "b", "B", " "}

\* str.lower()
lower(text) == [i \in 1..Len(text) |-> IF text[i] = "B" THEN "b" ELSE text[i]]

\* x in y, for two strings
IsSubstring(x, y) ==
    \E i \in 0..(Len(y) - Len(x)) : SubSeq(y, i + 1, i + Len(x)) = x

\* set(text.split()): the maximal runs without white space
split(text) ==
    LET n == Len(text)
        IsWord(i, j) == /\ i <= j
                        /\ \A k \in i..j : text[k] # " "
                        /\ i = 1 \/ text[i - 1] = " "
                        /\ j = n \/ text[j + 1] = " "
    IN  {SubSeq(text, p[1], p[2]) : p \in {p \in (1..n) \X (1..n) : IsWord(p[1], p[2])}}

\* a plausible bug: the test for a full overlap of the words is missing
MatchWithoutFullOverlap(query, matched_description) ==
    LET query_lower == lower(query)
        matched_lower == lower(matched_description)
        query_words == split(query_lower)
        overlap == Cardinality(query_words \cap split(matched_lower))
    IN  IF IsSubstring(query_lower, matched_lower) \/ IsSubstring(matched_lower, query_lower)
        THEN "high"
        ELSE IF 2 * overlap >= Cardinality(query_words) THEN "medium"
        ELSE "low"

_calculate_match_confidence(query, matched_description) ==
    LET query_lower == lower(query)
        matched_lower == lower(matched_description)
        query_words == split(query_lower)
        overlap == Cardinality(query_words \cap split(matched_lower))
    IN  IF IsSubstring(query_lower, matched_lower) \/ IsSubstring(matched_lower, query_lower)
        THEN "high"
        ELSE IF overlap >= Cardinality(query_words) THEN "high"
        ELSE IF 2 * overlap >= Cardinality(query_words) THEN "medium"
        ELSE "low"

\* _calculate_match_confidence called on a query and a description
MatchCall ==
    /\ ~qr.match.called
    /\ \E q \in SeqsUpTo(Alphabet, MaxChars), d \in SeqsUpTo(Alphabet, MaxChars) :
          qr' = [qr EXCEPT !.match = [called |-> TRUE, query |-> q, matched |-> d,
                                     out |-> _calculate_match_confidence(q, d)]]
    /\ UNCHANGED <<turnVars, storeVars, rateVars, lk, rl, rt>>

(***************************************************************************)
(* calculate_nutrition_for_serving called on a candidate, a quantity and   *)
(* a unit as the parser may spell it.                                      *)
(***************************************************************************)
MaxQuantity == 5

NoServing ==
    [called |-> FALSE, food_data |-> [calories |-> 0, protein |-> 0, carbs |-> 0, fat |-> 0,
                                      fiber |-> Absent, sugar |-> Absent],
     quantity |-> 1, unit |-> "serving", raised |-> FALSE,
     out |-> [calories |-> 0, protein |-> 0, carbs |-> 0, fat |-> 0, fiber |-> 0,
              sugar |-> 0, grams |-> 0]]

ServingUnits ==
    {"g", "kg", "KG", "cup", "Cup", "CUP", " cup ", "Slice ", "serving", "medium",
     "blob", "Blob", "cups of", "", None}

ServingCall ==
    /\ ~qr.serve.called
    /\ \E food_data \in Candidates, quantity \in 1..MaxQuantity, unit \in ServingUnits :
          qr' = [qr EXCEPT !.serve =
                    [called |-> TRUE, food_data |-> food_data, quantity |-> quantity,
                     unit |-> unit, raised |-> ServingRaises(unit),
                     out |-> IF ServingRaises(unit) THEN NoServing.out
                             ELSE calculate_nutrition_for_serving(food_data, quantity, unit)]]
    /\ UNCHANGED <<turnVars, storeVars, rateVars, lk, rl, rt>>

(***************************************************************************)
(* Parsed food items handed to lookup_nutrition.                           *)
(***************************************************************************)
Food(name, quantity, unit, meal_type) ==
    [name |-> name, quantity |-> quantity, unit |-> unit, meal_type |-> meal_type]

\* items as the parser is documented to produce them, and malformed ones
LookupFoods ==
    {Food("apple", 1, "medium", "lunch"),
     Food("xyz", 3, "blob", Missing),
     Food(Missing, Absent, Missing, Missing),
     Food("rice", 1, None, "lunch"),
     Food(None, 1, "serving", "lunch")}

(***************************************************************************)
(* SpecLookup: lookup_nutrition called on any list of at most MaxFoods     *)
(* items under any answers of the two collaborators.                       *)
(***************************************************************************)
NoOut == [raised |-> FALSE, value |-> <<>>, calls |-> <<>>]

NoLookup ==
    [called |-> FALSE, foods |-> <<>>, db |-> <<>>, ai |-> <<>>, out |-> NoOut,
     totals |-> calculate_totals(<<>>)]

\* one item with the collaborators' answers for it
Cases == [food : LookupFoods, db : DBOutcomes, ai : AIOutcomes]

\* the other items of the list draw from fewer foods and answers
OtherCases ==
    [food : {Food("apple", 1, "medium", "lunch"), Food(None, 1, "serving", "lunch")},
     db : {d \in DBOutcomes : d.kind = "empty" \/ (d.best.calories > 0 /\ d.match = "high")},
     ai : {a \in AIOutcomes : a.shape = "raise" \/ (a.cal_kind = "num" /\ a.calories > 0
                                                     /\ a.protein_kind = "num" /\ ~a.unknown)}]

InsertAt(seq, k, x) == SubSeq(seq, 1, k - 1) \o <<x>> \o SubSeq(seq, k, Len(seq))

LookupCall ==
    /\ ~lk.called
    /\ \/ lk' = [called |-> TRUE, foods |-> <<>>, db |-> <<>>, ai |-> <<>>,
                 out |-> lookup_nutrition(<<>>, <<>>, <<>>),
                 totals |-> calculate_totals(lookup_nutrition(<<>>, <<>>, <<>>).value)]
       \/ \E n \in 1..MaxFoods :
            \E k \in 1..n, c \in Cases, others \in [1..(n - 1) -> OtherCases] :
               LET cases == InsertAt(others, k, c)
                   foods == [i \in 1..n |-> cases[i].food]
                   db == [i \in 1..n |-> cases[i].db]
                   ai == [i \in 1..n |-> cases[i].ai]
                   out == lookup_nutrition(foods, db, ai)
               IN  lk' = [called |-> TRUE, foods |-> foods, db |-> db, ai |-> ai,
                          out |-> out,
                          totals |-> calculate_totals(out.value)]
    /\ UNCHANGED <<turnVars, storeVars, rateVars, rl, rt, qr>>

(***************************************************************************)
(* RateLimiter (src/utils/rate_limiter.py), as the orchestrator builds it. *)
(***************************************************************************)
max_requests == 10
window_seconds == 60

\* a plausible bug: a timestamp exactly one window old is kept
PruneInclusive(bucket, t) == SelectSeq(bucket, LAMBDA x : x >= t - window_seconds)

_prune(bucket, t) == SelectSeq(bucket, LAMBDA x : x > t - window_seconds)

\* a plausible bug: the limit is tested with > instead of >=
IsAllowedOffByOne(bucket, t) ==
    LET pruned == _prune(bucket, t)
    IN  IF Len(pruned) > max_requests
        THEN [allowed |-> FALSE, bucket |-> pruned]
        ELSE [allowed |-> TRUE, bucket |-> Append(pruned, t)]

\* is_allowed: [allowed, bucket] - the answer and the user's bucket afterwards
is_allowed(bucket, t) ==
    LET pruned == _prune(bucket, t)
    IN  IF Len(pruned) >= max_requests
        THEN [allowed |-> FALSE, bucket |-> pruned]
        ELSE [allowed |-> TRUE, bucket |-> Append(pruned, t)]

\* a plausible bug: the wait is counted from the newest timestamp
TimeUntilNewest(bucket, t) ==
    LET pruned == _prune(bucket, t)
    IN  IF Len(pruned) < max_requests THEN 0
        ELSE LET left == window_seconds - (t - pruned[Len(pruned)])
             IN  IF left > 0 THEN left ELSE 0

\* time_until_allowed: seconds, and the user's bucket afterwards
time_until_allowed(bucket, t) ==
    LET pruned == _prune(bucket, t)
    IN  IF Len(pruned) < max_requests THEN 0
        ELSE LET left == window_seconds - (t - pruned[1])
             IN  IF left > 0 THEN left ELSE 0

(***************************************************************************)
(* Dates: the clock counts seconds, a date is a number of days, and day 0  *)
(* is a Monday.                                                            *)
(***************************************************************************)
SecondsPerDay == 86400

\* datetime.now().date(), date.today()
Date(t) == t \div SecondsPerDay

\* date.weekday(): Monday is 0
weekday(d) == d % 7

\* the queries of the storage and the date resolver called on their own
NoResolve ==
    [called |-> FALSE, message |-> "", today |-> 0, start |-> 0, end |-> 0, label |-> "",
     path |-> ""]

NoAggregate ==
    [called |-> FALSE, user |-> "u1", day |-> 0,
     totals |-> [calories |-> 0, protein |-> 0, carbs |-> 0, fat |-> 0]]

NoMatch == [called |-> FALSE, query |-> <<>>, matched |-> <<>>, out |-> ""]

\* flip changes with every call, so that two equal calls in a row are told apart
NoDelete == [called |-> FALSE, log_id |-> 0, user |-> "u1", out |-> FALSE, flip |-> FALSE]

NoQueries ==
    [res |-> NoResolve, agg |-> NoAggregate, match |-> NoMatch, serve |-> NoServing,
     del |-> NoDelete]

(***************************************************************************)
(* The turn state (ConversationState) and the responses.                   *)
(***************************************************************************)
Users == {"u1", "u2"}

Messages ==
    {"I had an apple", "hello", "help", "What did I eat today?",
     "show me last week", "asdf"}

NoneList == [is_none |-> TRUE, v |-> <<>>]
Some(l) == [is_none |-> FALSE, v |-> l]
Truthy(opt) == ~opt.is_none /\ Len(opt.v) > 0

\* a response text: its kind, the names it lists as logged, the names in the
\* unresolved-items warning, the names in the AI-estimate note, the wait
Resp(kind, listed, warned, ai_noted, wait) ==
    [kind |-> kind, listed |-> listed, warned |-> warned, ai_noted |-> ai_noted,
     wait |-> wait]

Text(kind) == Resp(kind, <<>>, <<>>, <<>>, 0)

NoneResp == Text("None")

DefaultContext == [is_onboarded |-> FALSE, daily_calorie_goal |-> 2000]

NoTotals ==
    [calories |-> 0, protein |-> 0, carbs |-> 0, fat |-> 0, fiber |-> 0, sugar |-> 0]

\* the object the chat model extracts from an onboarding message: per field,
\* "null" (JSON null or no such key), "ok" (a value of the requested type) or
\* "bad" (a value of another type, as the string "75kg" for a weight)
required_fields == {"age", "gender", "weight_kg", "height_cm", "activity_level", "goal"}

Profile(kind) == [f \in required_fields |-> kind]

\* the reply to the extraction prompt: AIService() raises, invoke raises, the
\* text is no JSON, the JSON is no object, or an object with the six fields
Extraction(shape, fields) == [shape |-> shape, fields |-> fields]

NoExtraction == Extraction("none", Profile("null"))

\* ConversationState(...) of process_message
initial_state(u, m) ==
    [user_id |-> u, message |-> m, intent |-> None, user_context |-> DefaultContext,
     has_context |-> FALSE, classifier |-> "not_asked", extraction |-> NoExtraction,
     parsed_foods |-> NoneList, enriched_foods |-> NoneList,
     totals |-> [is_none |-> TRUE, v |-> NoTotals],
     response |-> NoneResp, error |-> None]

NoResult == [response |-> NoneResp, intent |-> None, error |-> None]

NoUser == [exists |-> FALSE, is_onboarded |-> FALSE, daily_calorie_goal |-> 0]

Call(name) == <<0, name>>

(***************************************************************************)
(* process_message: the admission check.                                   *)
(***************************************************************************)
\* a plausible bug: the user row is created before the admission check
RejectedAfterUserLookup(u, m, limit) ==
    /\ pc = "idle"
    /\ turns < limit
    /\ ~is_allowed(buckets[u], now).allowed
    /\ buckets' = [buckets EXCEPT ![u] = _prune(@, now)]
    /\ users' = [users EXCEPT ![u].exists = TRUE]
    /\ result' = [response |-> Resp("rate_limited", <<>>, <<>>, <<>>,
                                    time_until_allowed(buckets[u], now) + 1),
                  intent |-> "rate_limited", error |-> None]
    /\ turns' = turns + 1
    /\ trace' = <<>>
    /\ calls' = <<>>
    /\ UNCHANGED <<pc, st, food_logs, history, now, lk, rl, rt, qr>>

Rejected(u, m, limit) ==
    /\ pc = "idle"
    /\ turns < limit
    /\ ~is_allowed(buckets[u], now).allowed
    /\ buckets' = [buckets EXCEPT ![u] = _prune(@, now)]
    /\ result' = [response |-> Resp("rate_limited", <<>>, <<>>, <<>>,
                                    time_until_allowed(buckets[u], now) + 1),
                  intent |-> "rate_limited", error |-> None]
    /\ turns' = turns + 1
    /\ trace' = <<>>
    /\ calls' = <<>>
    /\ UNCHANGED <<pc, st, storeVars, now, lk, rl, rt, qr>>

Admitted(u, m, limit) ==
    /\ pc = "idle"
    /\ turns < limit
    /\ is_allowed(buckets[u], now).allowed
    /\ buckets' = [buckets EXCEPT ![u] = is_allowed(@, now).bucket]
    /\ st' = initial_state(u, m)
    /\ pc' = "get_user_context"
    /\ turns' = turns + 1
    /\ trace' = <<>>
    /\ calls' = <<>>
    /\ result' = NoResult
    /\ UNCHANGED <<storeVars, now, lk, rl, rt, qr>>

\* time passes between two messages
Tick ==
    /\ pc = "idle"
    /\ now + 30 <= MaxTime
    /\ now' = now + 30
    /\ UNCHANGED <<turnVars, storeVars, buckets, lk, rl, rt, qr>>

(***************************************************************************)
(* Calls of the rate limiter on their own, one after the other.            *)
(***************************************************************************)
Threads == 1..MaxThreads

NoCall == [op |-> "none", user |-> "u1", allowed |-> FALSE, wait |-> 0, flip |-> FALSE]

ThreadStart == [pc |-> "start", kept |-> <<>>, allowed |-> FALSE]

\* rl: the last call of the limiter, and the threads that are inside is_allowed
NoRate == [last |-> NoCall, thr |-> [t \in Threads |-> ThreadStart], base |-> 0]

Quiet == \A t \in Threads : rl.thr[t].pc = "start"

RaceUser == "u1"

\* rate_limiter.is_allowed(user_id), run from start to end
IsAllowedCall(u) ==
    /\ pc = "idle"
    /\ Quiet
    /\ u # RaceUser => Len(buckets[u]) < MaxOtherCalls
    /\ LET r == is_allowed(buckets[u], now)
       IN  /\ buckets' = [buckets EXCEPT ![u] = r.bucket]
           /\ rl' = [rl EXCEPT !.last = [op |-> "is_allowed", user |-> u,
                                         allowed |-> r.allowed, wait |-> 0,
                                         flip |-> ~rl.last.flip]]
    /\ UNCHANGED <<turnVars, storeVars, now, lk, rt, qr>>

\* a plausible bug: asking for the wait counts as a request
TimeUntilCallRecords(u) ==
    /\ pc = "idle"
    /\ Quiet
    /\ buckets' = [buckets EXCEPT ![u] = Append(_prune(@, now), now)]
    /\ rl' = [rl EXCEPT !.last = [op |-> "time_until_allowed", user |-> u,
                                  allowed |-> FALSE,
                                  wait |-> time_until_allowed(buckets[u], now),
                                  flip |-> ~rl.last.flip]]
    /\ UNCHANGED <<turnVars, storeVars, now, lk, rt, qr>>

\* rate_limiter.time_until_allowed(user_id), run from start to end
TimeUntilCall(u) ==
    /\ pc = "idle"
    /\ Quiet
    /\ buckets' = [buckets EXCEPT ![u] = _prune(@, now)]
    /\ rl' = [rl EXCEPT !.last = [op |-> "time_until_allowed", user |-> u,
                                  allowed |-> FALSE,
                                  wait |-> time_until_allowed(buckets[u], now),
                                  flip |-> ~rl.last.flip]]
    /\ UNCHANGED <<turnVars, storeVars, now, lk, rt, qr>>

(***************************************************************************)
(* is_allowed run by several threads at once for one user: the steps of    *)
(* _prune (build the kept list, store it) and of is_allowed (test the      *)
(* length, append) may interleave.                                         *)
(***************************************************************************)
\* _prune: [t for t in self._buckets.get(user_id, []) if t > cutoff]
PruneRead(t) ==
    /\ rl.thr[t].pc = "start"
    /\ rl' = [rl EXCEPT !.thr[t].pc = "read",
                        !.thr[t].kept = _prune(buckets[RaceUser], now),
                        !.base = IF Quiet THEN Len(_prune(buckets[RaceUser], now)) ELSE @]
    /\ UNCHANGED <<turnVars, storeVars, rateVars, lk, rt, qr>>

\* _prune: self._buckets[user_id] = ...
PruneWrite(t) ==
    /\ rl.thr[t].pc = "read"
    /\ buckets' = [buckets EXCEPT ![RaceUser] = rl.thr[t].kept]
    /\ rl' = [rl EXCEPT !.thr[t].pc = "pruned"]
    /\ UNCHANGED <<turnVars, storeVars, now, lk, rt, qr>>

\* is_allowed: if len(self._buckets.get(user_id, [])) >= self.max_requests
CheckLimit(t) ==
    /\ rl.thr[t].pc = "pruned"
    /\ rl' = [rl EXCEPT !.thr[t].pc = IF Len(buckets[RaceUser]) >= max_requests
                                      THEN "done" ELSE "checked"]
    /\ UNCHANGED <<turnVars, storeVars, rateVars, lk, rt, qr>>

\* is_allowed: self._buckets.setdefault(user_id, []).append(time.monotonic())
Record(t) ==
    /\ rl.thr[t].pc = "checked"
    /\ buckets' = [buckets EXCEPT ![RaceUser] = Append(@, now)]
    /\ rl' = [rl EXCEPT !.thr[t].pc = "done", !.thr[t].allowed = TRUE]
    /\ UNCHANGED <<turnVars, storeVars, now, lk, rt, qr>>

(***************************************************************************)
(* _get_user_context                                                       *)
(***************************************************************************)
\* a plausible bug: the default goal of the context is written back to the row
CreatedWithDefaultGoal(u) ==
    [users EXCEPT ![u] = [exists |-> TRUE, is_onboarded |-> @.is_onboarded,
                          daily_calorie_goal |-> IF @.daily_calorie_goal # 0
                                                 THEN @.daily_calorie_goal ELSE 2000]]

\* get_or_create_user: the row of a new user has no goal and no onboarded_at
Created(u) ==
    IF users[u].exists THEN users
    ELSE [users EXCEPT ![u] = [exists |-> TRUE, is_onboarded |-> FALSE,
                               daily_calorie_goal |-> 0]]

GetUserContext ==
    /\ pc = "get_user_context"
    /\ \E outcome \in {"ok", "raise_user", "raise_history"} :
         LET u == st.user_id
             row == Created(u)[u]
         IN  /\ users' = IF outcome = "raise_user" THEN users ELSE Created(u)
             /\ st' = IF outcome = "ok"
                      THEN [st EXCEPT !.has_context = TRUE,
                                      !.user_context =
                                          [is_onboarded |-> row.is_onboarded,
                                           daily_calorie_goal |->
                                               IF row.daily_calorie_goal # 0
                                               THEN row.daily_calorie_goal ELSE 2000]]
                      ELSE [st EXCEPT !.has_context = TRUE,
                                      !.user_context = DefaultContext,
                                      !.error = "context_error"]
             /\ calls' = calls \o (IF outcome = "raise_user"
                                   THEN <<Call("get_or_create_user")>>
                                   ELSE <<Call("get_or_create_user"),
                                          Call("get_recent_messages")>>)
    /\ trace' = Append(trace, "get_user_context")
    /\ pc' = "route_intent"
    /\ UNCHANGED <<result, turns, food_logs, history, rateVars, lk, rl, rt, qr>>

(***************************************************************************)
(* RouterAgent.route and _route_intent, _route_by_intent                   *)
(***************************************************************************)
\* the messages given to route on its own
RouteMessages ==
    {"I had an apple", "hello", "help", "What did I eat today?", "show me last week",
     "asdf", "What did I have for lunch?", "I ate pizza today", "hi, I had eggs",
     "how do I log what I had yesterday?", "hey, help", "what i ate yesterday"}

\* any(qp in msg for qp in QUERY_PHRASES)
HasQueryPhrase(m) ==
    m \in {"What did I eat today?", "What did I have for lunch?", "what i ate yesterday"}

\* the categories of KEYWORD_INTENTS with a keyword found in the message
\* ("kw in msg", as a whole word for keywords of up to three characters)
Found(m) ==
    CASE m = "I had an apple" -> {"log_food"}
      [] m = "hello" -> {"greeting"}
      [] m = "help" -> {"help"}
      [] m = "What did I eat today?" -> {"query_today"}
      [] m = "show me last week" -> {"query_history"}
      [] m = "What did I have for lunch?" -> {"log_food"}
      [] m = "I ate pizza today" -> {"query_today", "log_food"}
      [] m = "hi, I had eggs" -> {"greeting", "log_food"}
      [] m = "how do I log what I had yesterday?" -> {"query_history", "help", "log_food"}
      [] m = "hey, help" -> {"help", "greeting"}
      [] m = "what i ate yesterday" -> {"query_history", "log_food"}
      [] OTHER -> {}

\* the keys of KEYWORD_INTENTS, in the order of the dict
KEYWORD_INTENTS == <<"query_today", "query_history", "help", "greeting", "log_food">>

GreetingOnly == <<"greeting">>

Has(intent_map, intent) == \E i \in 1..Len(intent_map) : intent_map[i] = intent

RECURSIVE FirstMatch(_, _, _)
FirstMatch(m, intent_map, i) ==
    IF i > Len(intent_map) THEN None
    ELSE IF intent_map[i] \in Found(m) THEN intent_map[i]
    ELSE FirstMatch(m, intent_map, i + 1)

\* a plausible bug: log_food is tried before the other categories
MatchLogFoodFirst(m, intent_map) ==
    IF Has(intent_map, "log_food") /\ "log_food" \in Found(m) THEN "log_food"
    ELSE IF HasQueryPhrase(m)
    THEN IF Has(intent_map, "query_today") THEN "query_today" ELSE "query_history"
    ELSE FirstMatch(m, intent_map, 1)

_match_by_keywords(m, intent_map) ==
    IF HasQueryPhrase(m)
    THEN IF Has(intent_map, "query_today") THEN "query_today"
         ELSE IF Has(intent_map, "query_history") THEN "query_history"
         ELSE "query_history"
    ELSE FirstMatch(m, intent_map, 1)

\* _match_by_keywords(message, KEYWORD_INTENTS)
KeywordIntent(m) == _match_by_keywords(m, KEYWORD_INTENTS)

\* what detect_intent answers: an intent, JSON null, no intent key, or it raises
ClassifierOutcomes == {"greeting", "other", "delete_food", None, Missing, "raise"}

\* what the chat model replies to the classification prompt: it raises, the
\* text is no JSON, the JSON is no object, or an object whose "intent" is a
\* string, null or missing
ChatReplies ==
    {"raise", "malformed", "notdict", "greeting", "other", "delete_food", None, Missing}

FewReplies == {"raise", "greeting", "delete_food", None}

\* detect_intent(message): result["intent"] of the dict it returns; every
\* exception inside the try, and a JSON value that is no dict, give "other"
detect_intent(reply) ==
    IF reply \in {"raise", "malformed", "notdict"} THEN "other" ELSE reply

\* route line 54 calls detect_intent(message, history=history), while the
\* method is declared detect_intent(self, message): the call raises a
\* TypeError before the body runs; an AIService that takes the keyword answers
DetectIntentCall(c) == IF c = "type_error" THEN "raise" ELSE detect_intent(c)

\* a plausible bug: the classifier is asked before the keywords are tried
RouteAsksFirst(m, ctx, ai) ==
    IF ~ctx.is_onboarded
    THEN [raised |-> FALSE, intent |-> "onboarding_needed", asked |-> FALSE,
          step |-> IF _match_by_keywords(m, GreetingOnly) # None THEN "welcome"
                   ELSE "start"]
    ELSE IF ai = "raise"
    THEN [raised |-> TRUE, intent |-> None, asked |-> TRUE, step |-> ""]
    ELSE IF Get(ai, "other") # "other"
    THEN [raised |-> FALSE, intent |-> Get(ai, "other"), asked |-> TRUE, step |-> ""]
    ELSE [raised |-> FALSE, asked |-> TRUE, step |-> "",
          intent |-> IF KeywordIntent(m) # None THEN KeywordIntent(m) ELSE "other"]

\* a plausible bug: the onboarding gate is missing
RouteWithoutGate(m, ctx, ai) ==
    IF KeywordIntent(m) # None
    THEN [raised |-> FALSE, intent |-> KeywordIntent(m), asked |-> FALSE, step |-> ""]
    ELSE IF ai = "raise"
    THEN [raised |-> TRUE, intent |-> None, asked |-> TRUE, step |-> ""]
    ELSE [raised |-> FALSE, intent |-> Get(ai, "other"), asked |-> TRUE, step |-> ""]

\* route: [raised, intent, step, asked] - the intent, the sub-step of the
\* onboarding, and whether detect_intent was called
route(m, ctx, ai) ==
    IF ~ctx.is_onboarded
    THEN [raised |-> FALSE, intent |-> "onboarding_needed", asked |-> FALSE,
          step |-> IF _match_by_keywords(m, GreetingOnly) # None THEN "welcome"
                   ELSE "start"]
    ELSE IF KeywordIntent(m) # None
    THEN [raised |-> FALSE, intent |-> KeywordIntent(m), asked |-> FALSE, step |-> ""]
    ELSE IF ai = "raise"
    THEN [raised |-> TRUE, intent |-> None, asked |-> TRUE, step |-> ""]
    ELSE [raised |-> FALSE, intent |-> Get(ai, "other"), asked |-> TRUE, step |-> ""]

\* route called on its own: rt holds the last two calls
Contexts == {DefaultContext, [DefaultContext EXCEPT !.is_onboarded = TRUE]}

\* the recent messages handed to route
Histories == {<<>>, <<"hello">>}

\* the classifier's answers in these calls
RouteAnswers == {"delete_food", "raise"}

NoRouteCall ==
    [called |-> FALSE, message |-> "asdf", ctx |-> DefaultContext, history |-> <<>>,
     ai |-> "other",
     out |-> [raised |-> FALSE, intent |-> None, asked |-> FALSE, step |-> ""]]

NoRoutes == [prev |-> NoRouteCall, cur |-> NoRouteCall]

RouteCall ==
    /\ pc = "idle"
    /\ \E m \in RouteMessages, ctx \in Contexts, h \in Histories, ai \in RouteAnswers :
          rt' = [prev |-> rt.cur,
                 cur |-> [called |-> TRUE, message |-> m, ctx |-> ctx, history |-> h,
                          ai |-> ai, out |-> route(m, ctx, ai)]]
    /\ UNCHANGED <<turnVars, storeVars, rateVars, lk, rl, qr>>

MappedIntents ==
    {"onboarding_needed", "log_food", "query_today", "query_history", "greeting", "help",
     "error", "other"}

\* a plausible bug: the default of the lookup is END instead of the error handler
RouteByIntentDefaultEnd(intent) ==
    IF intent \in MappedIntents \ {"other"} THEN intent
    ELSE IF intent = "other" THEN "error"
    ELSE END

\* intent_map.get(intent, "error")
_route_by_intent(intent) ==
    IF intent \in MappedIntents \ {"other"} THEN intent
    ELSE "error"

\* the conditional edges of _build_graph
NodeOf(key) ==
    CASE key = "onboarding_needed" -> "handle_onboarding"
      [] key = "log_food" -> "parse_food"
      [] key = "query_today" -> "handle_query"
      [] key = "query_history" -> "handle_query"
      [] key = "greeting" -> "handle_greeting"
      [] key = "help" -> "handle_help"
      [] key = "error" -> "handle_error"
      [] key = "other" -> "handle_error"
      [] key = END -> "END"

RouteIntent(replies) ==
    /\ pc = "route_intent"
    /\ \E c \in replies \cup {"type_error"} :
         LET routing == route(st.message, st.user_context, DetectIntentCall(c))
             intent == IF routing.raised THEN "error" ELSE routing.intent
         IN  /\ st' = [st EXCEPT !.intent = intent,
                                 !.classifier = IF routing.asked THEN c ELSE @,
                                 !.error = IF routing.raised THEN "routing_error" ELSE @]
             /\ pc' = NodeOf(_route_by_intent(intent))
    /\ trace' = Append(trace, "route_intent")
    /\ UNCHANGED <<calls, result, turns, storeVars, rateVars, lk, rl, rt, qr>>

(***************************************************************************)
(* _handle_onboarding                                                      *)
(***************************************************************************)
\* the goal calculate_calorie_goal gives for the extracted profile
ComputedGoal == 1800

Extractions ==
    {Extraction("ctor_raise", Profile("null")),
     Extraction("raise", Profile("null")),
     Extraction("malformed", Profile("null")),
     Extraction("notdict", Profile("null")),
     Extraction("object", Profile("null")),
     Extraction("object", [Profile("ok") EXCEPT !["weight_kg"] = "null"]),
     Extraction("object", [Profile("ok") EXCEPT !["weight_kg"] = "bad"]),
     Extraction("object", Profile("ok"))}

FewExtractions ==
    {Extraction("ctor_raise", Profile("null")),
     Extraction("object", [Profile("ok") EXCEPT !["weight_kg"] = "null"]),
     Extraction("object", Profile("ok"))}

\* all(data.get(field) is not None for field in required_fields)
has_all_data(data) == \A field \in required_fields : data[field] # "null"

\* calculate_tdee, calculate_calorie_goal and the target weight do arithmetic
\* on weight, height and age and call .lower()/.upper() on the other three
ComputeRaises(data) == \E field \in required_fields : data[field] # "ok"

\* a plausible bug: update_user sets onboarded_at together with the profile
UpdatedUserOnboarded(row, mark_ok) ==
    [exists |-> TRUE, is_onboarded |-> TRUE, daily_calorie_goal |-> ComputedGoal]

\* the row after update_user(profile) and, when it returns, mark_user_onboarded
UpdatedUser(row, mark_ok) ==
    [exists |-> TRUE, is_onboarded |-> row.is_onboarded \/ mark_ok,
     daily_calorie_goal |-> ComputedGoal]

HandleOnboarding(extractions) ==
    /\ pc = "handle_onboarding"
    /\ trace' = Append(trace, "handle_onboarding")
    /\ \E ex \in extractions, update \in {"ok", "raise"}, mark \in {"ok", "raise"} :
         LET u == st.user_id
             update_ok == update = "ok" /\ users[u].exists
             mark_ok == mark = "ok"
         IN  IF ex.shape = "ctor_raise"
             THEN \* AIService() is built before the try: the exception leaves the graph
                  /\ pc' = "except"
                  /\ st' = [st EXCEPT !.error = "onboarding_error", !.extraction = ex]
                  /\ UNCHANGED <<users, calls>>
             ELSE IF ex.shape # "object" \/ ~has_all_data(ex.fields)
                     \/ ComputeRaises(ex.fields)
             THEN /\ pc' = "END"
                  /\ st' = [st EXCEPT !.response = Text("onboarding_welcome"),
                                      !.extraction = ex]
                  /\ calls' = Append(calls, Call("extract_onboarding"))
                  /\ UNCHANGED users
             ELSE /\ pc' = "END"
                  /\ users' = IF ~update_ok THEN users
                              ELSE [users EXCEPT ![u] = UpdatedUser(@, mark_ok)]
                  /\ st' = [st EXCEPT !.extraction = ex,
                                      !.response =
                                IF update_ok /\ mark_ok THEN Text("onboarding_done")
                                ELSE Text("onboarding_welcome")]
                  /\ calls' = calls \o <<Call("extract_onboarding"), Call("update_user")>>
                                    \o (IF update_ok THEN <<Call("mark_user_onboarded")>>
                                        ELSE <<>>)
    /\ UNCHANGED <<result, turns, food_logs, history, rateVars, lk, rl, rt, qr>>

(***************************************************************************)
(* _parse_food                                                             *)
(***************************************************************************)
\* what the parsing collaborator can extract from a message
Apple == Food("apple", 1, "medium", "lunch")
Xyz == Food("xyz", 3, "blob", Missing)
Nameless == Food(None, 1, "serving", "lunch")

ParsedLists ==
    {<<>>, <<Apple>>, <<Xyz>>, <<Apple, Xyz>>, <<Xyz, Apple>>, <<Nameless>>, <<Apple, Nameless>>}

FewLists == {<<>>, <<Apple>>}

\* a plausible bug: an empty list of foods is handed on like any other
ParseFoodNoReply(lists) ==
    /\ pc = "parse_food"
    /\ trace' = Append(trace, "parse_food")
    /\ calls' = Append(calls, Call("parse"))
    /\ \/ st' = [st EXCEPT !.error = "parse_error", !.intent = "error"]
       \/ \E foods \in lists : st' = [st EXCEPT !.parsed_foods = Some(foods)]
    /\ pc' = "lookup_nutrition"
    /\ UNCHANGED <<result, turns, storeVars, rateVars, lk, rl, rt, qr>>

ParseFood(lists) ==
    /\ pc = "parse_food"
    /\ trace' = Append(trace, "parse_food")
    /\ calls' = Append(calls, Call("parse"))
    /\ \/ \* food_parser.parse raises, or its answer has no "foods"
          st' = [st EXCEPT !.error = "parse_error", !.intent = "error"]
       \/ \E foods \in lists :
            st' = IF foods = <<>>
                  THEN [st EXCEPT !.parsed_foods = Some(foods),
                                  !.response = Text("no_food"),
                                  !.intent = END]
                  ELSE [st EXCEPT !.parsed_foods = Some(foods)]
    /\ pc' = "lookup_nutrition"
    /\ UNCHANGED <<result, turns, storeVars, rateVars, lk, rl, rt, qr>>

(***************************************************************************)
(* _lookup_nutrition                                                       *)
(***************************************************************************)
\* the collaborators' answers the turns of the model draw from
TurnDB == {d \in DBOutcomes : d.kind # "hit" \/ (d.best.calories > 0 /\ d.match = "high")}

TurnAI == {a \in AIOutcomes : a.shape = "raise" \/ (a.shape = "object" /\ ~a.unknown
                                   /\ a.cal_kind = "num" /\ a.protein_kind = "num"
                                   /\ a.calories >= 0)}

FewDB == {d \in TurnDB : d.kind # "empty"}

FewAI == {a \in TurnAI : a.shape = "raise"}

LookupNutrition(dbs, ais) ==
    /\ pc = "lookup_nutrition"
    /\ trace' = Append(trace, "lookup_nutrition")
    /\ IF ~Truthy(st.parsed_foods)
       THEN UNCHANGED <<st, calls>>
       ELSE LET foods == st.parsed_foods.v
            IN  \E db \in [1..Len(foods) -> dbs], ai \in [1..Len(foods) -> ais] :
                  LET out == lookup_nutrition(foods, db, ai)
                  IN  /\ calls' = calls \o out.calls
                      /\ st' = IF out.raised
                               THEN [st EXCEPT !.error = "lookup_error"]
                               ELSE [st EXCEPT !.enriched_foods = Some(out.value),
                                               !.totals = [is_none |-> FALSE,
                                                           v |-> calculate_totals(out.value)]]
    /\ pc' = "store_food_log"
    /\ UNCHANGED <<result, turns, storeVars, rateVars, lk, rl, rt, qr>>

(***************************************************************************)
(* _store_food_log                                                         *)
(***************************************************************************)
NamesOf(items) == [i \in 1..Len(items) |-> Get(items[i].name, "unknown")]

IsUnknown(f) == f.confidence = "unknown"
IsKnown(f) == f.confidence # "unknown"
IsAI(f) == f.confidence # "unknown" /\ f.source = "ai_estimated"

\* format_food_log_message reads item["name"] and item["quantity"]
FormatRaises(items) ==
    \E i \in 1..Len(items) : items[i].name = Missing \/ items[i].quantity = Absent

\* a plausible bug: the summary lists the resolved items only
LoggedResponseKnownOnly(items) ==
    Resp("logged", NamesOf(SelectSeq(items, IsKnown)), NamesOf(SelectSeq(items, IsUnknown)),
         NamesOf(SelectSeq(items, IsAI)), 0)

\* the summary of a logged meal, with the warning and the note appended
LoggedResponse(items) ==
    Resp("logged", NamesOf(items), NamesOf(SelectSeq(items, IsUnknown)),
         NamesOf(SelectSeq(items, IsAI)), 0)

\* the request to clarify when nothing could be resolved
ClarifyResponse(items) ==
    Resp("clarify", <<>>, NamesOf(SelectSeq(items, IsUnknown)), <<>>, 0)

\* FoodLog.id, the primary key: one above the greatest id in the table
NextId ==
    IF food_logs = <<>> THEN 1
    ELSE 1 + CHOOSE m \in {food_logs[i].id : i \in 1..Len(food_logs)} :
                 \A i \in 1..Len(food_logs) : food_logs[i].id <= m

\* a plausible bug: only the resolved items are stored
MealRecordKnownOnly(state) ==
    [id |-> NextId, user |-> state.user_id, raw_text |-> state.message,
     items |-> SelectSeq(state.enriched_foods.v, IsKnown),
     meal_type |-> Get(state.enriched_foods.v[1].meal_type, "other"),
     totals |-> state.totals.v, logged_at |-> Date(now)]

MealRecord(state) ==
    [id |-> NextId, user |-> state.user_id, raw_text |-> state.message,
     items |-> state.enriched_foods.v,
     meal_type |-> Get(state.enriched_foods.v[1].meal_type, "other"),
     totals |-> state.totals.v, logged_at |-> Date(now)]

\* a plausible bug: the all-unknown check is skipped and the record is written
StoresBeforeCheck(state) == FALSE

\* "if not known_items and unknown_items": nothing is stored, the user is asked
AllUnknown(state) ==
    /\ SelectSeq(state.enriched_foods.v, IsKnown) = <<>>
    /\ SelectSeq(state.enriched_foods.v, IsUnknown) # <<>>

StoreFoodLog ==
    /\ pc = "store_food_log"
    /\ trace' = Append(trace, "store_food_log")
    /\ pc' = "END"
    /\ IF ~Truthy(st.enriched_foods) \/ st.totals.is_none
       THEN UNCHANGED <<st, calls, food_logs>>
       ELSE IF AllUnknown(st)
       THEN /\ st' = [st EXCEPT !.response = ClarifyResponse(st.enriched_foods.v)]
            /\ UNCHANGED <<calls, food_logs>>
       ELSE \E create \in {"ok", "raise"}, summary \in {"ok", "raise"} :
              LET created == create = "ok" /\ users[st.user_id].exists
                  summarised == created /\ summary = "ok"
                                /\ ~FormatRaises(st.enriched_foods.v)
              IN  /\ food_logs' = IF created THEN Append(food_logs, MealRecord(st))
                                  ELSE food_logs
                  /\ calls' = calls \o <<Call("create_food_log")>>
                                    \o (IF created THEN <<Call("get_daily_totals")>> ELSE <<>>)
                  /\ st' = IF summarised
                           THEN [st EXCEPT !.response = LoggedResponse(st.enriched_foods.v)]
                           ELSE [st EXCEPT !.error = "store_error",
                                           !.response = Text("summary_error")]
    /\ UNCHANGED <<result, turns, users, history, rateVars, lk, rl, rt, qr>>

(***************************************************************************)
(* StorageAgent: the Meal Records of a day and their aggregate, and the    *)
(* storage called without a turn around it.                                *)
(***************************************************************************)
MaxLogs == 2
MaxDays == 1

\* round(x, 1) of an amount in thousandths
Round1(v) == 100 * RoundHalfEven(v, 100)

\* a plausible bug: the filter on FoodLog.user_id is missing
LogsByDateAnyUser(logs, u, d) ==
    IF ~users[u].exists THEN <<>>
    ELSE SelectSeq(logs, LAMBDA r : r.logged_at = d)

\* the user's logs with start_of_day <= logged_at <= end_of_day
get_food_logs_by_date(logs, u, d) ==
    IF ~users[u].exists THEN <<>>
    ELSE SelectSeq(logs, LAMBDA r : r.user = u /\ r.logged_at = d)

RECURSIVE SumLogs(_, _, _)
SumLogs(logs, field, i) ==
    IF i > Len(logs) THEN 0
    ELSE logs[i].totals[field] + SumLogs(logs, field, i + 1)

get_daily_totals(logs, u, d) ==
    LET day_logs == get_food_logs_by_date(logs, u, d)
    IN  [calories |-> Round1(SumLogs(day_logs, "calories", 1)),
         protein  |-> Round1(SumLogs(day_logs, "protein", 1)),
         carbs    |-> Round1(SumLogs(day_logs, "carbs", 1)),
         fat      |-> Round1(SumLogs(day_logs, "fat", 1))]

\* what _lookup_nutrition hands to _store_food_log for a logged message
LoggedMeals ==
    {lookup_nutrition(<<Apple>>, <<db>>, <<ai>>).value :
        db \in {d \in DBOutcomes : d.kind = "hit" /\ d.best.calories > 0 /\ d.match = "high"},
        ai \in {a \in AIOutcomes : a.shape = "raise"}}
    \cup
    {lookup_nutrition(<<Apple, Xyz>>, <<db, db>>, <<ai, AIReply("raise", FALSE, "missing", 0, "num", 0)>>).value :
        db \in {d \in DBOutcomes : d.kind = "empty"},
        ai \in {a \in AIOutcomes : a.shape = "object" /\ ~a.unknown /\ a.cal_kind = "num"
                                     /\ a.calories > 0 /\ a.protein_kind = "num"}}

\* a turn that logs one of the given meals: _lookup_nutrition, then
\* create_food_log
LogMealOf(u, meals) ==
    /\ pc = "idle"
    /\ Len(food_logs) < MaxLogs
    /\ users[u].exists
    /\ \E items \in meals :
         LET state == [initial_state(u, "I had an apple") EXCEPT
                          !.enriched_foods = Some(items),
                          !.totals = [is_none |-> FALSE, v |-> calculate_totals(items)]]
         IN  food_logs' = Append(food_logs, MealRecord(state))
    /\ UNCHANGED <<turnVars, users, history, rateVars, lk, rl, rt, qr>>

LogMeal(u) == LogMealOf(u, LoggedMeals)

\* one meal of a single item
FewMeals == {CHOOSE items \in LoggedMeals : Len(items) = 1}

\* get_or_create_user for a user that has no row yet
GetOrCreateUser(u) ==
    /\ pc = "idle"
    /\ ~users[u].exists
    /\ users' = Created(u)
    /\ UNCHANGED <<turnVars, food_logs, history, rateVars, lk, rl, rt, qr>>

\* midnight passes
NextDay ==
    /\ pc = "idle"
    /\ Date(now) < MaxDays
    /\ now' = now + SecondsPerDay
    /\ UNCHANGED <<turnVars, storeVars, buckets, lk, rl, rt, qr>>

\* storage.get_daily_totals(user_id, target_date)
DailyTotalsCall(u, d) ==
    /\ pc = "idle"
    /\ qr' = [qr EXCEPT !.agg = [called |-> TRUE, user |-> u, day |-> d,
                                 totals |-> get_daily_totals(food_logs, u, d)]]
    /\ UNCHANGED <<turnVars, storeVars, rateVars, lk, rl, rt>>

\* a plausible bug: the filter on FoodLog.user_id is missing
DeleteAnyUsersLog(logs, log_id, u) ==
    IF ~users[u].exists \/ SelectSeq(logs, LAMBDA r : r.id = log_id) = <<>>
    THEN [out |-> FALSE, logs |-> logs]
    ELSE [out |-> TRUE, logs |-> SelectSeq(logs, LAMBDA r : r.id # log_id)]

\* delete_food_log: [out, logs] - the answer and the table afterwards
delete_food_log(logs, log_id, u) ==
    IF ~users[u].exists THEN [out |-> FALSE, logs |-> logs]
    ELSE IF SelectSeq(logs, LAMBDA r : r.id = log_id /\ r.user = u) = <<>>
    THEN [out |-> FALSE, logs |-> logs]
    ELSE [out |-> TRUE, logs |-> SelectSeq(logs, LAMBDA r : r.id # log_id)]

\* storage.delete_food_log(log_id, slack_user_id)
DeleteCall(log_id, u) ==
    /\ pc = "idle"
    /\ LET r == delete_food_log(food_logs, log_id, u)
       IN  /\ food_logs' = r.logs
           /\ qr' = [qr EXCEPT !.del = [called |-> TRUE, log_id |-> log_id, user |-> u,
                                        out |-> r.out, flip |-> ~qr.del.flip]]
    /\ UNCHANGED <<turnVars, users, history, rateVars, lk, rl, rt>>

(***************************************************************************)
(* _handle_query, _handle_greeting, _handle_help, _handle_error            *)
(***************************************************************************)
\* messages of a query, and the date phrases each of them contains once it
\* is lower-cased
DateMessages ==
    {"What did I eat yesterday?", "show me last week", "yesterday or last week?",
     "how was this week", "last week vs this week", "last 3 days", "the past 3 days",
     "this week, last 3 days", "What did I eat today?", "Feb 13", "LAST WEEK",
     "yesterday, past 3 days", "this week or yesterday", "How many calories so far?"}

Mentions(m) ==
    CASE m = "What did I eat yesterday?" -> {"yesterday"}
      [] m = "show me last week" -> {"last week"}
      [] m = "yesterday or last week?" -> {"yesterday", "last week"}
      [] m = "how was this week" -> {"this week"}
      [] m = "last week vs this week" -> {"last week", "this week"}
      [] m = "last 3 days" -> {"last 3 days"}
      [] m = "the past 3 days" -> {"past 3 days"}
      [] m = "this week, last 3 days" -> {"this week", "last 3 days"}
      [] m = "LAST WEEK" -> {"last week"}
      [] m = "yesterday, past 3 days" -> {"yesterday", "past 3 days"}
      [] m = "this week or yesterday" -> {"this week", "yesterday"}
      [] OTHER -> {}

\* dateutil's fuzzy parse of the whole message: a date, or ValueError
NoDate == [ok |-> FALSE, date |-> 0]

FuzzyParses(m) ==
    IF m = "Feb 13" THEN {[ok |-> TRUE, date |-> 2], [ok |-> TRUE, date |-> 5]}
    ELSE {NoDate}

Interval(start, end, label) == [start |-> start, end |-> end, label |-> label]

\* a plausible bug: "last week" runs through today
ParseDateWeekThroughToday(m, today, fuzzy) ==
    IF "yesterday" \in Mentions(m) THEN Interval(today - 1, today - 1, "Yesterday")
    ELSE IF "last week" \in Mentions(m) THEN Interval(today - 7, today, "Last 7 Days")
    ELSE IF "this week" \in Mentions(m)
    THEN Interval(today - weekday(today), today, "This Week")
    ELSE IF "last 3 days" \in Mentions(m) \/ "past 3 days" \in Mentions(m)
    THEN Interval(today - 3, today, "Last 3 Days")
    ELSE IF fuzzy.ok THEN Interval(fuzzy.date, fuzzy.date, "date")
    ELSE Interval(today, today, "Today")

\* _parse_date_reference(message), with today = date.today()
_parse_date_reference(m, today, fuzzy) ==
    IF "yesterday" \in Mentions(m) THEN Interval(today - 1, today - 1, "Yesterday")
    ELSE IF "last week" \in Mentions(m) THEN Interval(today - 7, today - 1, "Last 7 Days")
    ELSE IF "this week" \in Mentions(m)
    THEN Interval(today - weekday(today), today, "This Week")
    ELSE IF "last 3 days" \in Mentions(m) \/ "past 3 days" \in Mentions(m)
    THEN Interval(today - 3, today, "Last 3 Days")
    ELSE IF fuzzy.ok THEN Interval(fuzzy.date, fuzzy.date, "date")
    ELSE Interval(today, today, "Today")

\* a plausible bug: every interval is answered by the daily summary
QueryPathDailyOnly(start, end) == "daily_summary"

\* is_single_day = (start == end) chooses the path of _handle_query
QueryPath(start, end) == IF start = end THEN "daily_summary" ELSE "range_summary"

\* does the interval of the message hold a single day
IsSingleDay(m) ==
    LET r == _parse_date_reference(m, Date(now), NoDate)
    IN  QueryPath(r.start, r.end) = "daily_summary"

MaxToday == 7

\* the resolver and the choice of the path, called on their own on a date
ResolveCall ==
    /\ pc = "idle"
    /\ \E m \in DateMessages, today \in 0..MaxToday :
         \E fuzzy \in FuzzyParses(m) :
            LET r == _parse_date_reference(m, today, fuzzy)
            IN  qr' = [qr EXCEPT !.res =
                         [called |-> TRUE, message |-> m, today |-> today,
                          start |-> r.start, end |-> r.end, label |-> r.label,
                          path |-> QueryPath(r.start, r.end)]]
    /\ UNCHANGED <<turnVars, storeVars, rateVars, lk, rl, rt>>

HandleQuery ==
    /\ pc = "handle_query"
    /\ trace' = Append(trace, "handle_query")
    /\ pc' = "END"
    /\ \E outcome \in {"ok", "raise"} :
         /\ st' = [st EXCEPT !.response =
                       IF outcome = "raise" THEN Text("query_error")
                       ELSE IF IsSingleDay(st.message) THEN Text("daily_summary")
                       ELSE Text("range_summary")]
         /\ calls' = Append(calls, IF IsSingleDay(st.message)
                                   THEN Call("get_daily_totals")
                                   ELSE Call("get_range_totals"))
    /\ UNCHANGED <<result, turns, storeVars, rateVars, lk, rl, rt, qr>>

HandleGreeting ==
    /\ pc = "handle_greeting"
    /\ trace' = Append(trace, "handle_greeting")
    /\ pc' = "END"
    /\ st' = [st EXCEPT !.response = IF st.user_context.is_onboarded
                                     THEN Text("greeting_ready")
                                     ELSE Text("greeting_setup")]
    /\ UNCHANGED <<calls, result, turns, storeVars, rateVars, lk, rl, rt, qr>>

HandleHelp ==
    /\ pc = "handle_help"
    /\ trace' = Append(trace, "handle_help")
    /\ pc' = "END"
    /\ st' = [st EXCEPT !.response = Text("help")]
    /\ UNCHANGED <<calls, result, turns, storeVars, rateVars, lk, rl, rt, qr>>

\* a plausible bug: the edge from handle_error to END is missing
HandleErrorNoEdge ==
    /\ pc = "handle_error"
    /\ trace' = Append(trace, "handle_error")
    /\ pc' = "no_edge"
    /\ st' = [st EXCEPT !.response = Text("not_sure")]
    /\ UNCHANGED <<calls, result, turns, storeVars, rateVars, lk, rl, rt, qr>>

HandleError ==
    /\ pc = "handle_error"
    /\ trace' = Append(trace, "handle_error")
    /\ pc' = "END"
    /\ st' = [st EXCEPT !.response = Text("not_sure")]
    /\ UNCHANGED <<calls, result, turns, storeVars, rateVars, lk, rl, rt, qr>>

(***************************************************************************)
(* process_message: after graph.invoke                                     *)
(***************************************************************************)
\* final_state.get("response", "I'm not sure how to help with that."): the key
\* is always present, so a None stored under it is what comes back
FinalResponse(state) == state.response

\* a plausible bug: no except clause around the graph run
Propagated(state) == [response |-> NoneResp, intent |-> "raised", error |-> state.error]

\* the except clause of process_message
OnException(state) ==
    [response |-> Text("apology"), intent |-> "error", error |-> state.error]

Entry(role, text) == [role |-> role, text |-> text]

\* a plausible bug: the response is saved before the message
SaveMessagesBotFirst(h, message, bot_response, saved) ==
    IF saved = "raise_first" THEN h
    ELSE IF saved = "raise_second" THEN Append(h, Entry("bot", bot_response))
    ELSE h \o <<Entry("bot", bot_response), Entry("user", Text(message))>>

\* the two save_message calls inside one try: the first may raise, or the
\* second, or neither
SaveMessages(h, message, bot_response, saved) ==
    IF saved = "raise_first" THEN h
    ELSE IF saved = "raise_second" THEN Append(h, Entry("user", Text(message)))
    ELSE h \o <<Entry("user", Text(message)), Entry("bot", bot_response)>>

Return ==
    /\ pc = "END"
    /\ LET bot_response == FinalResponse(st)
       IN  /\ \E saved \in {"ok", "raise_first", "raise_second"} :
                /\ history' =
                     [history EXCEPT ![st.user_id] =
                        SaveMessages(@, st.message, bot_response, saved)]
                /\ calls' = calls \o (IF saved = "raise_first"
                                      THEN <<Call("save_message")>>
                                      ELSE <<Call("save_message"), Call("save_message")>>)
           /\ result' = [response |-> bot_response, intent |-> st.intent,
                         error |-> st.error]
    /\ pc' = "idle"
    /\ UNCHANGED <<st, trace, turns, users, food_logs, rateVars, lk, rl, rt, qr>>

ReturnError ==
    /\ pc = "except"
    /\ result' = OnException(st)
    /\ pc' = IF result'.intent = "raised" THEN "raised" ELSE "idle"
    /\ UNCHANGED <<st, trace, calls, turns, storeVars, rateVars, lk, rl, rt, qr>>

(***************************************************************************)
(* The specifications.                                                     *)
(***************************************************************************)
FullBucket == [i \in 1..max_requests |-> 0]

Init ==
    /\ pc = "idle"
    /\ st = initial_state("u1", "hello")
    /\ trace = <<>>
    /\ calls = <<>>
    /\ result = NoResult
    /\ turns = 0
    /\ users = [u \in Users |-> IF u = "u1"
                                THEN [exists |-> TRUE, is_onboarded |-> TRUE,
                                      daily_calorie_goal |-> ComputedGoal]
                                ELSE NoUser]
    /\ food_logs = <<>>
    /\ history = [u \in Users |-> <<>>]
    /\ now = 0
    /\ buckets \in {[u \in Users |-> <<>>],
                    [u \in Users |-> IF u = "u2" THEN FullBucket ELSE <<>>]}
    /\ lk = NoLookup
    /\ rl = NoRate
    /\ rt = NoRoutes
    /\ qr = NoQueries

Next ==
    \/ \E u \in Users, m \in Messages : Rejected(u, m, MaxTurns)
    \/ \E u \in Users, m \in Messages : Admitted(u, m, MaxTurns)
    \/ GetUserContext
    \/ RouteIntent(ChatReplies)
    \/ HandleOnboarding(Extractions)
    \/ ParseFood(ParsedLists)
    \/ LookupNutrition(TurnDB, TurnAI)
    \/ StoreFoodLog
    \/ HandleQuery
    \/ HandleGreeting
    \/ HandleHelp
    \/ HandleError
    \/ Return
    \/ ReturnError

Spec == Init /\ [][Next]_vars

\* several turns in a row, over fewer messages and collaborator answers
FewMessages == {"I had an apple", "help", "What did I eat today?", "asdf"}

\* graph.invoke runs the nodes one after the other in the calling thread: a
\* node that can run does run
NextFair ==
    \/ \E u \in Users, m \in FewMessages : Rejected(u, m, MaxTurns)
    \/ \E u \in Users, m \in FewMessages : Admitted(u, m, MaxTurns)
    \/ GetUserContext
    \/ RouteIntent(FewReplies)
    \/ HandleOnboarding(FewExtractions)
    \/ ParseFood(FewLists)
    \/ LookupNutrition(FewDB, FewAI)
    \/ StoreFoodLog
    \/ HandleQuery
    \/ HandleGreeting
    \/ HandleHelp
    \/ HandleError
    \/ Return
    \/ ReturnError

SpecFair == Init /\ [][NextFair]_vars /\ WF_vars(NextFair)

NextTurns ==
    \/ \E u \in Users, m \in FewMessages : Rejected(u, m, MaxTurns + 1)
    \/ \E u \in Users, m \in FewMessages : Admitted(u, m, MaxTurns + 1)
    \/ GetUserContext
    \/ RouteIntent(FewReplies)
    \/ HandleOnboarding(FewExtractions)
    \/ ParseFood(FewLists)
    \/ LookupNutrition(FewDB, FewAI)
    \/ StoreFoodLog
    \/ HandleQuery
    \/ HandleGreeting
    \/ HandleHelp
    \/ HandleError
    \/ Return
    \/ ReturnError

SpecTurns == Init /\ [][NextTurns]_vars

\* the limiter called by one message after the other, while time passes
NextRate ==
    \/ \E u \in Users : IsAllowedCall(u)
    \/ \E u \in Users : TimeUntilCall(u)
    \/ Tick

InitRate == Init /\ buckets = [u \in Users |-> <<>>]

SpecRate == InitRate /\ [][NextRate]_vars

\* is_allowed called for one user by several threads within one instant,
\* after any number of calls that did not overlap
NextRace ==
    \/ IsAllowedCall(RaceUser)
    \/ \E t \in Threads : PruneRead(t)
    \/ \E t \in Threads : PruneWrite(t)
    \/ \E t \in Threads : CheckLimit(t)
    \/ \E t \in Threads : Record(t)

SpecRace == InitRate /\ [][NextRace]_vars

\* route called again and again
NextRoute == RouteCall

SpecRoute == InitRate /\ [][NextRoute]_vars

\* meals logged and aggregates asked for over several days
NextLog ==
    \/ \E u \in Users : GetOrCreateUser(u)
    \/ \E u \in Users : LogMeal(u)
    \/ NextDay
    \/ \E u \in Users, d \in 0..MaxDays : DailyTotalsCall(u, d)

SpecLog == InitRate /\ [][NextLog]_vars

\* meals logged and deleted again
NextDelete ==
    \/ \E u \in Users : GetOrCreateUser(u)
    \/ \E u \in Users : LogMealOf(u, FewMeals)
    \/ \E u \in Users, log_id \in 1..(MaxLogs + 1) : DeleteCall(log_id, u)

SpecDelete == InitRate /\ [][NextDelete]_vars

\* the date resolver on any message and date
NextDates == ResolveCall

SpecDates == InitRate /\ [][NextDates]_vars

\* the serving of any candidate, quantity and unit
NextServing == ServingCall

SpecServing == InitRate /\ [][NextServing]_vars

\* the match confidence of any query and description
NextMatch == MatchCall

SpecMatch == InitRate /\ [][NextMatch]_vars

NextLookup == LookupCall

InitLookup == Init /\ buckets = [u \in Users |-> <<>>]

SpecLookup == InitLookup /\ [][NextLookup]_vars

(***************************************************************************)
(* Properties of a turn (Spec, SpecTurns).                                 *)
(***************************************************************************)
TurnOver == pc = "idle" /\ turns > 0

\* C1: the response returned by process_message for an admitted message is a
\* non-empty string, whatever the intent and whichever collaborator raises.
C1_ResponseNonEmpty == TurnOver => result.response.kind # "None"

\* C2: process_message never propagates an exception: every call returns a
\* result with the fields response, intent and error, and afterwards the next
\* message of every user is taken up.
C2_NeverPropagates ==
    /\ pc # "raised"
    /\ DOMAIN result = {"response", "intent", "error"}
    /\ (pc = "idle" /\ turns < MaxTurns + 1) =>
          \A u \in Users, m \in FewMessages :
             ENABLED (Admitted(u, m, MaxTurns + 1) \/ Rejected(u, m, MaxTurns + 1))
    /\ (TurnOver /\ result.intent = "error" /\ result.response.kind = "apology") =>
          result.error # None

\* the first turn, of u2, lost its user lookup (u2 was admitted and is still
\* not in the store), and the second turn, of u1, stored a meal as usual
C2_Witness ==
    /\ pc = "idle"
    /\ turns = 2
    /\ Len(buckets["u2"]) = 1
    /\ ~users["u2"].exists
    /\ st.user_id = "u1"
    /\ result.response.kind = "logged"
    /\ result.error = None
    /\ DOMAIN result = {"response", "intent", "error"}

\* the node the transition table of section 4.6 gives for an intent
TableNode(intent) ==
    CASE intent = "onboarding_needed" -> "handle_onboarding"
      [] intent = "log_food" -> "parse_food"
      [] intent = "query_today" -> "handle_query"
      [] intent = "query_history" -> "handle_query"
      [] intent = "greeting" -> "handle_greeting"
      [] intent = "help" -> "handle_help"
      [] OTHER -> "handle_error"

\* C3: the node run after routing is the one the table gives for the turn's
\* intent; parse-food is followed by resolve-nutrition and then persist; the
\* error node runs for no mapped non-error intent.
C3_RoutingTable ==
    /\ (Len(trace) = 2 /\ trace[2] = "route_intent") => pc = TableNode(st.intent)
    /\ Len(trace) >= 3 =>
          /\ trace[1] = "get_user_context"
          /\ trace[2] = "route_intent"
          /\ trace[3] = "parse_food" \/ trace[3] = TableNode(st.intent)
          /\ trace[3] # "parse_food" => Len(trace) = 3
          /\ trace[3] = "parse_food" =>
                /\ Len(trace) = 3 => pc = "lookup_nutrition"
                /\ Len(trace) >= 4 => trace[4] = "lookup_nutrition"
                /\ Len(trace) = 4 => pc = "store_food_log"
                /\ Len(trace) >= 5 => trace[5] = "store_food_log" /\ Len(trace) = 5
          /\ trace[3] = "handle_error" =>
                st.intent \notin {"onboarding_needed", "log_food", "query_today",
                                  "query_history", "greeting", "help"}

C3_Witness ==
    /\ pc = "END"
    /\ trace = <<"get_user_context", "route_intent", "parse_food", "lookup_nutrition",
                 "store_food_log">>
    /\ st.response.kind = "logged"

\* the persist node has run on a list of enriched items
Persisted ==
    /\ Len(trace) = 5
    /\ trace[5] = "store_food_log"
    /\ Truthy(st.enriched_foods)
    /\ ~st.totals.is_none

InUnknownTier(f) == f.source = "estimated"

SomeItem(items, P(_)) == \E i \in 1..Len(items) : P(items[i])

\* C4: when every enriched item of a logging turn is in the unknown tier,
\* create_food_log is not called and the response asks the user to clarify
\* the food or to give its calories.
C4_AllUnknownNotStored ==
    (Persisted /\ \A i \in 1..Len(st.enriched_foods.v) : InUnknownTier(st.enriched_foods.v[i]))
       => /\ \A k \in 1..Len(calls) : calls[k] # Call("create_food_log")
          /\ st.response.kind = "clarify"
          /\ st.response.warned = NamesOf(st.enriched_foods.v)

C4_Witness ==
    /\ Persisted
    /\ Len(st.enriched_foods.v) = 2
    /\ \A i \in 1..2 : InUnknownTier(st.enriched_foods.v[i])
    /\ food_logs = <<>>

\* the persist node is about to run on a list with a resolved item
PersistStep ==
    /\ pc = "store_food_log"
    /\ Truthy(st.enriched_foods)
    /\ ~st.totals.is_none
    /\ \E i \in 1..Len(st.enriched_foods.v) : ~InUnknownTier(st.enriched_foods.v[i])

\* the Meal Record of the turn: every enriched item and the calculated totals
TurnRecord ==
    [id |-> Len(food_logs) + 1, user |-> st.user_id, raw_text |-> st.message,
     items |-> st.enriched_foods.v,
     meal_type |-> Get(st.enriched_foods.v[1].meal_type, "other"),
     totals |-> calculate_totals(st.enriched_foods.v), logged_at |-> Date(now)]

IsEstimatedByAI(f) == f.source = "ai_estimated"

Flagged ==
    /\ st'.response.kind = "logged"
    /\ st'.response.warned # <<>> <=> SomeItem(st.enriched_foods.v, InUnknownTier)
    /\ st'.response.warned = NamesOf(SelectSeq(st.enriched_foods.v, InUnknownTier))
    /\ st'.response.ai_noted # <<>> <=> SomeItem(st.enriched_foods.v, IsEstimatedByAI)
    /\ st'.response.ai_noted = NamesOf(SelectSeq(st.enriched_foods.v, IsEstimatedByAI))

ItemCalls(i) ==
    LET mine == SelectSeq(lk.out.calls, LAMBDA c : c[1] = i)
    IN  [k \in 1..Len(mine) |-> mine[k][2]]

Asked(i, who) == \E k \in 1..Len(ItemCalls(i)) : ItemCalls(i)[k] = who

Returned == lk.called /\ ~lk.out.raised

\* C6: lookup_nutrition returns, without raising, a list of the length and
\* order of its input in which every record has a provenance tag, whatever
\* the items' fields and the collaborators' answers.
C6_SameLength ==
    lk.called =>
       /\ ~lk.out.raised
       /\ Len(lk.out.value) = Len(lk.foods)
       /\ \A i \in 1..Len(lk.out.value) :
             /\ lk.out.value[i].name = lk.foods[i].name
             /\ lk.out.value[i].source \notin {Missing, None}

\* the database step of item i failed: the search, the serving calculation
\* or the match confidence raised
DbFailed(i) ==
    \/ lk.db[i].kind = "raise"
    \/ /\ lk.db[i].kind = "hit"
       /\ (Get(lk.foods[i].unit, "serving") = None \/ Get(lk.foods[i].name, "") = None)

\* C7: per item the tiers are tried in the order database, AI estimate,
\* unknown: the AI is asked only after the search gave no candidate or the
\* database step failed, never for an item resolved from a candidate, and the
\* unknown record is produced only after the AI estimate failed.
C7_TierOrder ==
    lk.called =>
       \A i \in 1..Len(lk.foods) :
          /\ \A k \in 1..Len(ItemCalls(i)) :
                ItemCalls(i)[k] = "ai_estimate" =>
                   /\ k > 1
                   /\ ItemCalls(i)[1] = "usda_search"
                   /\ lk.db[i].kind = "empty" \/ DbFailed(i)
          /\ ~lk.out.raised =>
                /\ lk.out.value[i].source = "usda" => ~Asked(i, "ai_estimate")
                /\ lk.out.value[i].confidence = "unknown" =>
                      /\ Asked(i, "ai_estimate")
                      /\ ~_ai_estimate_nutrition(lk.ai[i]).ok

C7_Witness ==
    /\ Returned
    /\ \E i, j \in 1..Len(lk.foods) :
          /\ ItemCalls(i) = <<"usda_search", "ai_estimate">>
          /\ lk.db[i].kind = "raise"
          /\ lk.out.value[i].confidence = "unknown"
          /\ lk.out.value[j].source = "usda"
          /\ ItemCalls(j) = <<"usda_search">>

\* the reply is a JSON object of numbers without the "unknown" signal
WellFormed(ai) ==
    /\ ai.shape = "object"
    /\ ai.cal_kind = "num"
    /\ ai.protein_kind = "num"
    /\ ~ai.unknown

IsEstimateOf(rec, ai) ==
    /\ rec.source = "ai_estimated"
    /\ rec.confidence = "medium"
    /\ rec.calories = Round2(ai.calories)
    /\ rec.protein = Round2(ai.protein)
    /\ rec.carbs = Round2(ai.carbs)
    /\ rec.fat = Round2(ai.fat)

\* C8 as stated: a reached AI estimate fails only on the "unknown" signal or
\* a malformed or non-numeric reply; every well-formed numeric reply without
\* the signal, one with zero calories included, gives a record tagged
\* ai_estimated with confidence medium and the estimated values.
C8_AsStated ==
    Returned =>
       \A i \in 1..Len(lk.foods) :
          (Asked(i, "ai_estimate") /\ WellFormed(lk.ai[i])) =>
             IsEstimateOf(lk.out.value[i], lk.ai[i])

\* C8 amended: a reached AI estimate gives a record tagged ai_estimated with
\* confidence medium and the estimated values (rounded to two decimals)
\* exactly when the reply is a JSON object without the "unknown" signal whose
\* calories are a number above zero and whose other values are numbers (a
\* missing one counts as zero); every other reply, one with zero or negative
\* calories included, is a failed estimate and gives the unknown record.
C8_Estimate ==
    Returned =>
       \A i \in 1..Len(lk.foods) :
          Asked(i, "ai_estimate") =>
             LET ai == lk.ai[i]
                 rec == lk.out.value[i]
             IN  IF /\ ai.shape = "object"
                    /\ ~ai.unknown
                    /\ ai.cal_kind = "num"
                    /\ ai.calories > 0
                    /\ ai.protein_kind # "text"
                 THEN /\ rec.source = "ai_estimated"
                      /\ rec.confidence = "medium"
                      /\ rec.calories = Round2(ai.calories)
                      /\ rec.protein = (IF ai.protein_kind = "missing" THEN 0
                                        ELSE Round2(ai.protein))
                      /\ rec.carbs = Round2(ai.carbs)
                      /\ rec.fat = Round2(ai.fat)
                 ELSE rec.confidence = "unknown" /\ rec.calories = 0

C8_Witness ==
    /\ Returned
    /\ \E i, j \in 1..Len(lk.foods) :
          /\ Asked(i, "ai_estimate")
          /\ WellFormed(lk.ai[i])
          /\ lk.ai[i].calories = 0
          /\ lk.out.value[i].confidence = "unknown"
          /\ Asked(j, "ai_estimate")
          /\ IsEstimateOf(lk.out.value[j], lk.ai[j])
          /\ lk.out.value[j].calories = 95130

\* item i got its values from the database candidate
FromDatabase(i) == lk.db[i].kind = "hit" /\ ~DbFailed(i)

ZeroNutrients(rec) ==
    rec.calories = 0 /\ rec.protein = 0 /\ rec.carbs = 0 /\ rec.fat = 0

\* C9 as stated: the provenance tag of every enriched item is one of
\* database, ai_estimated, unknown.
C9_AsStated ==
    Returned =>
       \A i \in 1..Len(lk.out.value) :
          lk.out.value[i].source \in {"database", "ai_estimated", "unknown"}

\* C9 amended: the provenance tag ("source") of every enriched item is one of
\* usda, ai_estimated, estimated and names the tier that produced its values:
\* usda for a database candidate, ai_estimated for an AI estimate; an item
\* whose database lookup and AI estimate both fail is tagged estimated with
\* confidence unknown and zero calories, protein, carbs and fat.
C9_Provenance ==
    Returned =>
       \A i \in 1..Len(lk.out.value) :
          LET rec == lk.out.value[i]
              est == _ai_estimate_nutrition(lk.ai[i])
          IN  /\ rec.source \in {"usda", "ai_estimated", "estimated"}
              /\ rec.source = "usda" <=> FromDatabase(i)
              /\ rec.source = "usda" =>
                    rec.calories = Scale(lk.db[i].best.calories,
                                         Grams(Quantity(lk.foods[i]),
                                               Get(lk.foods[i].unit, "serving")))
              /\ rec.source = "ai_estimated" <=> (~FromDatabase(i) /\ est.ok)
              /\ rec.source = "ai_estimated" => rec.calories = Round2(est.calories)
              /\ (~FromDatabase(i) /\ ~est.ok) =>
                    /\ rec.source = "estimated"
                    /\ rec.confidence = "unknown"
                    /\ ZeroNutrients(rec)

C9_Witness ==
    /\ Returned
    /\ Len(lk.out.value) = 2
    /\ lk.out.value[1].source = "usda"
    /\ lk.out.value[1].calories = 67600
    /\ lk.out.value[2].source = "estimated"
    /\ lk.db[2].kind = "raise"
    /\ lk.ai[2].shape = "malformed"

MixedSummary ==
    /\ Persisted
    /\ st.response.kind = "logged"
    /\ SomeItem(st.enriched_foods.v, InUnknownTier)

NotInUnknownTier(f) == ~InUnknownTier(f)

\* C11 as stated: in the response of a logging turn with resolved and unknown
\* items the section of logged items leaves out every unknown item, and every
\* unknown item is in the warning.
C11_AsStated ==
    MixedSummary =>
       /\ st.response.listed = NamesOf(SelectSeq(st.enriched_foods.v, NotInUnknownTier))
       /\ st.response.warned = NamesOf(SelectSeq(st.enriched_foods.v, InUnknownTier))

\* C11 amended: in the response of a logging turn with resolved and unknown
\* items the section of logged items lists every enriched item, the unknown
\* ones included (at zero calories), and every unknown item is in the warning
\* as well.
C11_Listed ==
    MixedSummary =>
       /\ st.response.listed = NamesOf(st.enriched_foods.v)
       /\ st.response.warned = NamesOf(SelectSeq(st.enriched_foods.v, InUnknownTier))
       /\ \A i \in 1..Len(st.enriched_foods.v) :
             InUnknownTier(st.enriched_foods.v[i]) =>
                /\ st.enriched_foods.v[i].calories = 0
                /\ st.response.listed[i] = Get(st.enriched_foods.v[i].name, "unknown")
                /\ \E k \in 1..Len(st.response.warned) :
                      st.response.warned[k] = st.response.listed[i]

C11_Witness ==
    /\ MixedSummary
    /\ Len(st.enriched_foods.v) = 2
    /\ st.enriched_foods.v[1].source = "usda"
    /\ InUnknownTier(st.enriched_foods.v[2])
    /\ st.response.listed = <<"apple", "xyz">>
    /\ st.response.warned = <<"xyz">>

(***************************************************************************)
(* Properties of the rate limiter (SpecRate, SpecRace).                    *)
(***************************************************************************)
\* the step is a call op of the limiter, made by user u
CallBy(op, u) ==
    /\ rl'.last.flip # rl.last.flip
    /\ rl'.last.op = op
    /\ rl'.last.user = u

\* the timestamps of u that are inside the window that ends now
InWindow(u) == {i \in 1..Len(buckets[u]) : buckets[u][i] > now - window_seconds}

\* C12: from an empty bucket, calls of is_allowed inside one window are
\* admitted as long as fewer than max_requests were admitted in it, the call
\* after max_requests admitted ones is rejected, and once window_seconds have
\* passed since the oldest admitted call a call is admitted again.
C12_Window ==
    [][\A u \in Users :
          CallBy("is_allowed", u) =>
             /\ Cardinality(InWindow(u)) < max_requests => rl'.last.allowed
             /\ Cardinality(InWindow(u)) = max_requests => ~rl'.last.allowed
             /\ Cardinality(InWindow(u)) <= max_requests
             /\ (buckets[u] # <<>> /\ now >= buckets[u][1] + window_seconds
                    /\ \A i \in 1..Len(buckets[u]) : buckets[u][i] >= buckets[u][1])
                   => rl'.last.allowed]_vars

\* ten calls were admitted within one window and the eleventh was rejected
C12_Witness ==
    /\ rl.last.op = "is_allowed"
    /\ rl.last.user = "u1"
    /\ ~rl.last.allowed
    /\ now = 30
    /\ Len(buckets["u1"]) = max_requests
    /\ buckets["u1"][1] = 0
    /\ buckets["u1"][max_requests] = 30

\* the calls of is_allowed the threads have finished with an admission
AdmittedThreads == {t \in Threads : rl.thr[t].pc = "done" /\ rl.thr[t].allowed}

\* C13: under every interleaving of is_allowed calls for one user no admitted
\* timestamp is lost and no more than max_requests calls are admitted within
\* one window.
C13_Atomic ==
    /\ rl.base + Cardinality(AdmittedThreads) <= max_requests
    /\ (\A t \in Threads : rl.thr[t].pc = "done") =>
          Len(buckets[RaceUser]) = rl.base + Cardinality(AdmittedThreads)

\* C14: is_allowed(user) admits exactly when fewer than max_requests of the
\* user's timestamps are newer than now minus the window; an admitted call
\* appends one timestamp to the user's bucket, a rejected call none, and no
\* other user's bucket changes.
C14_Admission ==
    [][\A u \in Users :
          CallBy("is_allowed", u) =>
             LET kept == SelectSeq(buckets[u], LAMBDA x : x > now - window_seconds)
             IN  /\ rl'.last.allowed <=> Cardinality(InWindow(u)) < max_requests
                 /\ rl'.last.allowed => buckets'[u] = Append(kept, now)
                 /\ ~rl'.last.allowed => buckets'[u] = kept
                 /\ \A v \in Users \ {u} : buckets'[v] = buckets[v]]_vars

\* u1 was admitted beside five of its own timestamps, u2's bucket was kept
C14_Witness ==
    /\ rl.last.op = "is_allowed"
    /\ rl.last.user = "u1"
    /\ rl.last.allowed
    /\ now = 60
    /\ Len(buckets["u1"]) = 6
    /\ buckets["u1"][1] = 30
    /\ buckets["u1"][6] = 60
    /\ buckets["u2"] = <<0>>

C16_RejectedFrame ==
    [][(turns' = turns + 1 /\ result'.intent = "rate_limited") =>
          /\ result'.response.kind = "rate_limited"
          /\ result'.response.wait >= 1
          /\ result'.response.wait <= window_seconds + 1
          /\ result'.error = None
          /\ trace' = <<>>
          /\ calls' = <<>>
          /\ pc' = "idle"
          /\ st' = st
          /\ users' = users
          /\ food_logs' = food_logs
          /\ history' = history]_vars

\* u1 stored a meal, then the message of u2 was rejected
C16_Witness ==
    /\ pc = "idle"
    /\ turns = 2
    /\ result.intent = "rate_limited"
    /\ result.response.wait = window_seconds + 1
    /\ Len(food_logs) = 1
    /\ history["u1"] # <<>>
    /\ ~users["u2"].exists

(***************************************************************************)
(* Properties of the routing (Spec, SpecRoute).                            *)
(***************************************************************************)
ClosedIntents ==
    {"log_food", "query_today", "query_history", "greeting", "help", "onboarding_needed",
     "error", "other"}

\* C17: the intent of a turn, as routing produces it and as the result of the
\* turn reports it, is one of log_food, query_today, query_history, greeting,
\* help, onboarding_needed, error/other.
C17_ClosedSet ==
    /\ Len(trace) >= 2 => st.intent \in ClosedIntents
    /\ (TurnOver /\ result.intent # "rate_limited") => result.intent \in ClosedIntents

IsGreeting(m) == "greeting" \in Found(m)

\* C18: for a user whose onboarding is incomplete route returns
\* onboarding_needed without asking the classifier, with sub-step welcome
\* exactly when the message is a greeting and start for every other message.
C18_Onboarding ==
    (rt.cur.called /\ ~rt.cur.ctx.is_onboarded) =>
       /\ ~rt.cur.out.raised
       /\ rt.cur.out.intent = "onboarding_needed"
       /\ ~rt.cur.out.asked
       /\ rt.cur.out.step = (IF IsGreeting(rt.cur.message) THEN "welcome" ELSE "start")

IsQuery(m) == HasQueryPhrase(m) \/ Found(m) \cap {"query_today", "query_history"} # {}

\* the place of a category in the order of the keyword categories
Rank(c) ==
    CASE c = "query_today" -> 1
      [] c = "query_history" -> 2
      [] c = "help" -> 3
      [] c = "greeting" -> 4
      [] c = "log_food" -> 5

C20_KeywordPath ==
    (rt.cur.called /\ rt.cur.ctx.is_onboarded) =>
       /\ rt.cur.out.asked <=>
             (~HasQueryPhrase(rt.cur.message) /\ Found(rt.cur.message) = {})
       /\ (/\ rt.prev.called
           /\ rt.prev.ctx.is_onboarded
           /\ rt.prev.message = rt.cur.message
           /\ ~rt.cur.out.asked) =>
             /\ rt.prev.out.intent = rt.cur.out.intent
             /\ ~rt.cur.out.raised
             /\ ~rt.prev.out.raised

C20_Witness ==
    /\ rt.cur.called
    /\ rt.prev.called
    /\ rt.cur.ctx.is_onboarded
    /\ rt.prev.ctx.is_onboarded
    /\ rt.cur.message = "I had an apple"
    /\ rt.prev.message = "I had an apple"
    /\ rt.cur.history # rt.prev.history
    /\ rt.cur.ai = "raise"
    /\ rt.prev.ai = "delete_food"
    /\ rt.cur.out.intent = "log_food"
    /\ rt.prev.out.intent = "log_food"
    /\ ~rt.cur.out.asked

(***************************************************************************)
(* Properties of the classification and the onboarding (Spec, SpecTurns).  *)
(***************************************************************************)
\* the classifier was asked in this turn and gave no usable answer
ClassifierFailed == st.classifier \in {"raise", "malformed", "notdict", "type_error"}

\* C21: when the classifier raises or answers with something that is no
\* structured object, the intent of the turn is other and the turn is
\* answered by the generic message of the error node.
C21_DegradesToOther ==
    (TurnOver /\ result.intent # "rate_limited" /\ ClassifierFailed) =>
       /\ result.intent = "other"
       /\ result.response = Text("not_sure")

OnboardingStep == pc = "handle_onboarding" /\ pc' # pc

Called(cs, name) == \E k \in 1..Len(cs) : cs[k] = Call(name)

\* the reply is an object in which none of the six fields is null
AllSix(ex) == ex.shape = "object" /\ \A f \in required_fields : ex.fields[f] # "null"

\* the reply is an object with a usable value in each of the six fields
AllSixUsable(ex) == ex.shape = "object" /\ \A f \in required_fields : ex.fields[f] = "ok"

LoggedPositive(u) ==
    /\ Len(food_logs) >= 1
    /\ food_logs[Len(food_logs)].user = u
    /\ food_logs[Len(food_logs)].raw_text = "I had an apple"
    /\ food_logs[Len(food_logs)].totals.calories > 0

\* the turn of st was routed with this value of is_onboarded in its context
RoutedAs(onboarded) == Len(trace) >= 2 /\ st.user_context.is_onboarded = onboarded

Nutrients == {"calories", "protein", "carbs", "fat", "fiber", "sugar"}

\* the sum of one nutrient over the items at the positions S, a missing
\* nutrient counting as zero
RECURSIVE SumOver(_, _, _)
SumOver(S, items, field) ==
    IF S = {} THEN 0
    ELSE LET i == CHOOSE i \in S : TRUE
         IN  (IF items[i][field] = Absent THEN 0 ELSE items[i][field])
             + SumOver(S \ {i}, items, field)

\* an amount in thousandths that has two decimals
TwoDecimals(v) == v % 10 = 0

\* the nearest amount with two decimals
Nearest2(v, r) == TwoDecimals(r) /\ 2 * (r - v) <= 10 /\ 2 * (v - r) <= 10

Reordered(items, p) == [i \in 1..Len(items) |-> items[p[i]]]

Without(items, k) == [i \in 1..(Len(items) - 1) |-> IF i < k THEN items[i] ELSE items[i + 1]]

\* C24: calculate_totals gives for each nutrient the sum over all items, a
\* missing nutrient counting as zero, rounded to two decimals; every ordering
\* of the items gives the same totals, and an unknown item contributes zero.
C24_Totals ==
    (lk.called /\ ~lk.out.raised) =>
       LET items == lk.out.value
       IN  /\ \A f \in Nutrients :
                Nearest2(SumOver(1..Len(items), items, f), lk.totals[f])
           /\ \A p \in Permutations(1..Len(items)) :
                calculate_totals(Reordered(items, p)) = lk.totals
           /\ \A k \in 1..Len(items) :
                IsUnknown(items[k]) => calculate_totals(Without(items, k)) = lk.totals

\* totals of a resolved item with a nutrient missing and an unknown item
C24_Witness ==
    /\ lk.called
    /\ ~lk.out.raised
    /\ Len(lk.out.value) = 2
    /\ IsUnknown(lk.out.value[1])
    /\ IsKnown(lk.out.value[2])
    /\ \E f \in Nutrients : lk.out.value[2][f] = Absent
    /\ lk.totals.calories > 0
    /\ lk.totals.calories = lk.out.value[2].calories

(***************************************************************************)
(* Properties of the stored records and their aggregates (SpecLog).        *)
(***************************************************************************)
StoredNutrients == {"calories", "protein", "carbs", "fat"}

\* the positions of the records of a user that were logged on a day
RecordsOf(u, d) ==
    {k \in 1..Len(food_logs) : food_logs[k].user = u /\ food_logs[k].logged_at = d}

\* the sum of one nutrient's totals over the records at the positions S
RECURSIVE SumTotalsOver(_, _)
SumTotalsOver(S, f) ==
    IF S = {} THEN 0
    ELSE LET k == CHOOSE k \in S : TRUE
         IN  food_logs[k].totals[f] + SumTotalsOver(S \ {k}, f)

\* the nearest amount with one decimal
Nearest1(v, r) == r % 100 = 0 /\ 2 * (r - v) <= 100 /\ 2 * (v - r) <= 100

\* every record's totals are the sums over its items, to two decimals
RecordTotals ==
    \A k \in 1..Len(food_logs) : \A f \in StoredNutrients :
       Nearest2(SumOver(1..Len(food_logs[k].items), food_logs[k].items, f),
                food_logs[k].totals[f])

AggregateStep == qr'.agg # qr.agg

Occurs(x, y) ==
    \E start \in 1..(Len(y) + 1) :
       /\ start + Len(x) - 1 <= Len(y)
       /\ \A k \in 1..Len(x) : lower(y)[start + k - 1] = lower(x)[k]

\* the words of the query that are words of the description
SharedWords(q, d) == {w \in split(lower(q)) : w \in split(lower(d))}

Contained(q, d) == Occurs(q, d) \/ Occurs(d, q)

\* C26 as stated: the tag is high exactly when the query is a substring of
\* the description or the description one of the query; otherwise medium when
\* at least half of the query's words are words of the description, and low
\* in every remaining case.
C26_AsStated ==
    qr.match.called =>
       LET q == qr.match.query
           d == qr.match.matched
       IN  qr.match.out =
              (IF Contained(q, d) THEN "high"
               ELSE IF 2 * Cardinality(SharedWords(q, d)) >= Cardinality(split(lower(q)))
               THEN "medium"
               ELSE "low")

\* C26 amended: the tag is high exactly when, both texts lower-cased, one is
\* a substring of the other or every word of the query is a word of the
\* description; otherwise medium when at least half of the query's distinct
\* words are words of the description, and low in every remaining case.
C26_Confidence ==
    qr.match.called =>
       LET q == qr.match.query
           d == qr.match.matched
       IN  qr.match.out =
              (IF Contained(q, d) \/ SharedWords(q, d) = split(lower(q)) THEN "high"
               ELSE IF 2 * Cardinality(SharedWords(q, d)) >= Cardinality(split(lower(q)))
               THEN "medium"
               ELSE "low")

\* every word of the query is in the description, in another order: high
C26_Witness ==
    /\ qr.match.called
    /\ qr.match.query = <<"a", " ", "B">>
    /\ qr.match.matched = <<"b", " ", "a">>
    /\ ~Contained(qr.match.query, qr.match.matched)
    /\ qr.match.out = "high"

(***************************************************************************)
(* Properties of the date resolver and the query node (SpecDates).         *)
(***************************************************************************)
\* the number of calendar days of the closed interval of the last call
DaysSpanned == qr.res.end - qr.res.start + 1

Says(phrase) == phrase \in Mentions(qr.res.message)

\* C27: with T the current date, a message containing "yesterday" resolves
\* to the single day [T-1, T-1], and one containing "last week" and not
\* "yesterday" to [T-7, T-1], which spans 7 days and ends the day before
\* today.
C27_Yesterday ==
    qr.res.called =>
       /\ Says("yesterday") =>
             /\ qr.res.start = qr.res.today - 1
             /\ qr.res.end = qr.res.today - 1
       /\ (Says("last week") /\ ~Says("yesterday")) =>
             /\ qr.res.start = qr.res.today - 7
             /\ qr.res.end = qr.res.today - 1
             /\ DaysSpanned = 7

\* "last week" asked on the eighth day, in a message that also says "this week"
C27_Witness ==
    /\ qr.res.called
    /\ qr.res.message = "last week vs this week"
    /\ qr.res.today = 7
    /\ qr.res.start = 0
    /\ qr.res.end = 6
    /\ qr.res.label = "Last 7 Days"

\* C28: a message containing "last 3 days" or "past 3 days" and no phrase of
\* higher priority resolves to a closed interval of exactly 3 calendar days
\* whose last day is today.
C28_ThreeDays ==
    (/\ qr.res.called
     /\ Says("last 3 days") \/ Says("past 3 days")
     /\ ~Says("yesterday") /\ ~Says("last week") /\ ~Says("this week")) =>
       /\ qr.res.end = qr.res.today
       /\ DaysSpanned = 3

\* C29 as stated: start <= end for every message and date; the query node
\* takes the daily path exactly when start = end and the range path for every
\* wider interval, so "this week" is answered by the range aggregation.
C29_AsStated ==
    qr.res.called =>
       /\ qr.res.start <= qr.res.end
       /\ qr.res.path = "daily_summary" <=> qr.res.start = qr.res.end
       /\ qr.res.path = "range_summary" <=> qr.res.start < qr.res.end
       /\ (Says("this week") /\ ~Says("yesterday") /\ ~Says("last week")) =>
             /\ qr.res.start = qr.res.today - (qr.res.today % 7)
             /\ qr.res.end = qr.res.today
             /\ qr.res.path = "range_summary"

\* C29 amended: start <= end for every message and date; the query node takes
\* the daily path exactly when start = end and the range path for every wider
\* interval; "this week" is Monday of the current week through today, which
\* is answered by the range aggregation on every day but a Monday, when the
\* interval is the single day today and the daily summary answers.
C29_Paths ==
    qr.res.called =>
       /\ qr.res.start <= qr.res.end
       /\ qr.res.path = "daily_summary" <=> qr.res.start = qr.res.end
       /\ qr.res.path = "range_summary" <=> qr.res.start < qr.res.end
       /\ (Says("this week") /\ ~Says("yesterday") /\ ~Says("last week")) =>
             /\ qr.res.start = qr.res.today - (qr.res.today % 7)
             /\ qr.res.end = qr.res.today
             /\ qr.res.path = "daily_summary" <=> qr.res.today % 7 = 0
             /\ qr.res.label = "This Week"

\* "this week" asked on the second Monday: one day, the daily summary
C29_Witness ==
    /\ qr.res.called
    /\ qr.res.message = "this week, last 3 days"
    /\ qr.res.today = 7
    /\ qr.res.start = 7
    /\ qr.res.end = 7
    /\ qr.res.path = "daily_summary"


(***************************************************************************)
(* C30: the unit normalizer and the scaling of a candidate.                *)
(***************************************************************************)
\* the unit tables of the normalizer, as grams per unit
UnitTable ==
    {<<"g", 1>>, <<"kg", 1000>>, <<"cup", 240>>, <<"slice", 30>>, <<"serving", 100>>,
     <<"medium", 130>>}

\* the unit with its letters in lower case, white space kept
CaseFolded(unit) ==
    CASE unit = "Cup" -> "cup"
      [] unit = "CUP" -> "cup"
      [] unit = "KG" -> "kg"
      [] unit = "Slice " -> "slice "
      [] unit = "Blob" -> "blob"
      [] OTHER -> unit

\* the unit with its letters in lower case and the white space around it removed
Trimmed(unit) ==
    CASE unit = " cup " -> "cup"
      [] unit = "Slice " -> "slice"
      [] OTHER -> CaseFolded(unit)

Served == qr.serve.called /\ ~qr.serve.raised

NutrientNames == {"calories", "protein", "carbs", "fat", "fiber", "sugar"}

\* the mass of the serving is m grams
MassIs(m) == qr.serve.out.grams = 1000 * m

\* the mass the size heuristic gives to a unit of no table
Heuristic == IF qr.serve.quantity <= 2 THEN 100 * qr.serve.quantity
             ELSE 30 * qr.serve.quantity

\* C30 as stated: a unit that is in a table when its case is ignored has the
\* mass quantity x factor, any other unit has the mass of the size heuristic,
\* and each nutrient equals the per-100 g value times mass / 100.
C30_AsStated ==
    Served =>
       /\ \A p \in UnitTable :
             CaseFolded(qr.serve.unit) = p[1] => MassIs(qr.serve.quantity * p[2])
       /\ (\A p \in UnitTable : CaseFolded(qr.serve.unit) # p[1]) => MassIs(Heuristic)
       /\ \A f \in NutrientNames :
             100 * qr.serve.out[f] =
                GetNum(qr.serve.food_data[f]) * (qr.serve.out.grams \div 1000)

\* C30, amended: the unit is looked up in lower case with the white space
\* around it removed; a unit found in a table has the mass quantity x factor,
\* so the mass is a function of the pair and proportional to the quantity; a
\* unit found in no table has the mass quantity x 100 g when quantity <= 2 and
\* quantity x 30 g when quantity > 2; each returned nutrient is the per-100 g
\* value (0 when the candidate lacks it) times mass / 100, rounded to two
\* decimals.
C30_Serving ==
    Served =>
       /\ \A p \in UnitTable :
             Trimmed(qr.serve.unit) = p[1] => MassIs(qr.serve.quantity * p[2])
       /\ (\A p \in UnitTable : Trimmed(qr.serve.unit) # p[1]) => MassIs(Heuristic)
       /\ \A f \in NutrientNames :
             LET exact == GetNum(qr.serve.food_data[f]) * (qr.serve.out.grams \div 1000)
                 \* exact is the nutrient in units of 10^-5; the result is a
                 \* multiple of 0.01 at most 0.005 away from it
             IN  /\ qr.serve.out[f] % 10 = 0
                 /\ 100 * qr.serve.out[f] - exact <= 500
                 /\ exact - 100 * qr.serve.out[f] <= 500

\* three cups written " cup " of a candidate whose carbohydrates need rounding
C30_Witness ==
    /\ Served
    /\ qr.serve.unit = " cup "
    /\ qr.serve.quantity = 3
    /\ MassIs(720)
    /\ qr.serve.food_data.carbs = 13815
    /\ qr.serve.out.carbs = 99470


(***************************************************************************)
(* C31: the conversation history after a turn whose graph run completed.   *)
(***************************************************************************)
\* process_message returns after a completed graph run
ReturnStep == pc = "END" /\ pc' = "idle"

\* the two entries of the turn, the message first
TurnEntries == <<Entry("user", Text(st.message)), Entry("bot", result'.response)>>

CreateFailed == Called(calls, "create_food_log") /\ ~Called(calls, "get_daily_totals")

\* the text "I logged your food, but there was an error generating the summary."
SaysLogged(response) == response.kind \in {"logged", "summary_error"}

\* C32: when creating the Meal Record fails, the turn returns a non-empty
\* response and an error marker, no Meal Record exists for the turn, and the
\* response does not state that the food was logged.
C32_NotSaved ==
    (TurnOver /\ CreateFailed) =>
       /\ result.response.kind # "None"
       /\ result.error # None
       /\ \A i \in 1..Len(food_logs) : food_logs[i].raw_text # st.message
       /\ ~SaysLogged(result.response)


(***************************************************************************)
(* C33: a log-food turn in which the parser found no food.                 *)
(***************************************************************************)
\* the parser returned an empty list of foods
NothingParsed == st.parsed_foods = Some(<<>>)

\* a call made for the i-th item by the nutrition resolution chain
ChainCalls == {k \in 1..Len(calls) : calls[k][1] > 0}

\* the steps of a turn after the parser returned an empty list
AfterNothingParsed ==
    /\ NothingParsed
    /\ \/ pc \in {"lookup_nutrition", "store_food_log", "END"}
       \/ pc = "idle" /\ trace # <<>>

\* C33: when the parser extracts no food items from a log-food message, the
\* response is the clarification request, the nutrition resolution chain is not
\* invoked, no Meal Record is created, and the turn ends: the two remaining
\* nodes of the chain run without calling a collaborator, no step of them
\* changes the stored records, and the result is returned.
C33_NoFood ==
    /\ [](AfterNothingParsed =>
             /\ st.response.kind = "no_food"
             /\ ChainCalls = {}
             /\ ~Called(calls, "create_food_log")
             /\ st.enriched_foods.is_none
             /\ pc = "idle" =>
                   /\ result.response.kind = "no_food"
                   /\ trace = <<"get_user_context", "route_intent", "parse_food",
                                "lookup_nutrition", "store_food_log">>)
    /\ [][(AfterNothingParsed /\ pc # "idle") => food_logs' = food_logs]_vars

\* a turn that ended with the clarification request
C33_Witness ==
    /\ TurnOver
    /\ NothingParsed
    /\ result.response.kind = "no_food"
    /\ result.intent = END


(***************************************************************************)
(* C34: the error marker of a turn in which a node caught a failure.       *)
(***************************************************************************)
\* the nodes whose except branch ran, as far as the final state shows it
ParseCaught == Called(calls, "parse") /\ st.parsed_foods.is_none
LookupCaught == Truthy(st.parsed_foods) /\ st.enriched_foods.is_none
QueryCaught == st.response.kind = "query_error"
ExtractionCaught == st.extraction.shape \in {"raise", "malformed", "notdict"}

\* the failures that _parse_food, _lookup_nutrition and _store_food_log catch
\* leave an error marker
MarkedByLogFood ==
    (TurnOver /\ (ParseCaught \/ LookupCaught \/ CreateFailed)) => result.error # None

\* C34: whenever a graph node caught a failure of a collaborator, the result
\* returned for the turn has a non-null error marker.
C34_ErrorMarker ==
    (TurnOver /\ (ParseCaught \/ LookupCaught \/ CreateFailed \/ QueryCaught
                    \/ ExtractionCaught))
       => result.error # None


(***************************************************************************)
(* C35: the stored profile outside the onboarding node.                    *)
(***************************************************************************)
\* the profile fields of a stored row, as get_or_create_user reads them
StoredProfile(u) ==
    [is_onboarded |-> users[u].is_onboarded,
     daily_calorie_goal |-> users[u].daily_calorie_goal]

ProfileWriters == {"update_user", "mark_user_onboarded"}

\* C35: no step of a turn outside the onboarding node changes the stored
\* profile of any user (a row created by the context load holds the values a
\* missing row reads as) or calls update_user or mark_user_onboarded, so turns
\* handled by the food-logging, query, greeting, help and error branches leave
\* the profile as it was.
C35_ProfileFrame ==
    [][pc # "handle_onboarding" =>
         /\ \A u \in Users : StoredProfile(u)' = StoredProfile(u)
         /\ \A name \in ProfileWriters : Called(calls', name) => Called(calls, name)
      ]_vars

\* a food-logging turn that stored a record and left the profile as it was
C35_Witness ==
    /\ TurnOver
    /\ Len(trace) = 5 /\ trace[5] = "store_food_log"
    /\ Len(food_logs) = 1
    /\ StoredProfile(st.user_id) = [is_onboarded |-> TRUE, daily_calorie_goal |-> ComputedGoal]
    /\ \A name \in ProfileWriters : ~Called(calls, name)


(***************************************************************************)
(* C36: every admitted turn terminates.                                    *)
(***************************************************************************)
InTurn == pc \notin {"idle", "raised"}

\* at most five nodes have run, none of them twice
NodeBound ==
    /\ Len(trace) <= 5
    /\ \A i, j \in 1..Len(trace) : i # j => trace[i] # trace[j]

\* a turn starts from a fresh state and only when no turn is under way
FreshTurn ==
    (pc' = "get_user_context") =>
       /\ pc = "idle"
       /\ trace' = <<>>
       /\ st' = initial_state(st'.user_id, st'.message)

C37_StaysOnboarded ==
    [][\A u \in Users :
          users[u].is_onboarded =>
             /\ users'[u] = users[u]
             /\ ~(pc' = "handle_onboarding" /\ st'.user_id = u)]_vars

\* the part of C37 that the code keeps: the onboarded flag is never cleared
NeverUnmarked == [][\A u \in Users : users[u].is_onboarded => users'[u].is_onboarded]_vars

(***************************************************************************)
(* C38: the profile update and the onboarded mark.                         *)
(***************************************************************************)
\* C38: a turn answered with the onboarding instructions leaves the stored
\* profile unchanged, and the onboarding node never leaves a user with a newly
\* written profile who is not marked onboarded.
C38_AllOrNothing ==
    [][OnboardingStep =>
         /\ st'.response = Text("onboarding_welcome") => users' = users
         /\ users'[st.user_id] # users[st.user_id] => users'[st.user_id].is_onboarded
      ]_vars


(***************************************************************************)
(* C39: the buckets under calls made one at a time.                        *)
(***************************************************************************)
\* at most max_requests timestamps, the oldest first
BucketShape ==
    \A u \in Users :
       /\ Len(buckets[u]) <= max_requests
       /\ \A i, j \in 1..Len(buckets[u]) : i <= j => buckets[u][i] <= buckets[u][j]

\* b is what is left of a when some of its oldest timestamps are dropped
IsSuffix(b, a) == Len(b) <= Len(a) /\ b = SubSeq(a, Len(a) - Len(b) + 1, Len(a))

\* C39: after any sequence of is_allowed and time_until_allowed calls made one
\* at a time, each user's bucket holds at most max_requests timestamps in
\* non-decreasing order, the oldest first; a call of time_until_allowed only
\* drops expired timestamps of its user, and is_allowed called at any later
\* time answers and leaves the bucket as it would have without that call.
C39_Buckets ==
    /\ []BucketShape
    /\ [][\A u \in Users :
             CallBy("time_until_allowed", u) =>
                /\ IsSuffix(buckets'[u], buckets[u])
                /\ \A v \in Users \ {u} : buckets'[v] = buckets[v]
                /\ \A t \in now..MaxTime :
                      is_allowed(buckets'[u], t) = is_allowed(buckets[u], t)]_vars

\* the wait was asked for a full bucket after its two oldest stamps expired
C39_Witness ==
    /\ rl.last.op = "time_until_allowed"
    /\ rl.last.wait = 0
    /\ now = 60
    /\ Len(buckets[rl.last.user]) = max_requests - 2
    /\ buckets[rl.last.user][1] = 30


(***************************************************************************)
(* C40: delete_food_log, and the records under the orchestrator's turns.   *)
(***************************************************************************)
DeleteStep == qr'.del.flip # qr.del.flip

\* the records with the given id that belong to the given user
OwnedBy(log_id, u) ==
    {i \in 1..Len(food_logs) : food_logs[i].id = log_id /\ food_logs[i].user = u}

\* every step of a turn leaves the existing records in place: it adds one
\* record at the end or none
TurnsOnlyAppend ==
    [][\/ food_logs' = food_logs
       \/ \E r \in {food_logs'[Len(food_logs')]} : food_logs' = Append(food_logs, r)]_vars

\* C40: delete_food_log(log_id, user) removes a Meal Record only if a record
\* with that id exists and belongs to the user; it then removes that record
\* alone and returns True; otherwise it returns False and no record of any user
\* is changed. Ids are unique, and logging a meal leaves the existing records
\* as they are.
C40_Delete ==
    /\ [](\A i, j \in 1..Len(food_logs) : food_logs[i].id = food_logs[j].id => i = j)
    /\ [][DeleteStep =>
            LET log_id == qr'.del.log_id
                u == qr'.del.user
            IN  /\ qr'.del.out <=> (users[u].exists /\ OwnedBy(log_id, u) # {})
                /\ qr'.del.out =>
                      food_logs' = SelectSeq(food_logs,
                                             LAMBDA r : ~(r.id = log_id /\ r.user = u))
                /\ ~qr'.del.out => food_logs' = food_logs
                /\ users' = users]_vars
    /\ [][~DeleteStep =>
            \/ food_logs' = food_logs
            \/ \E r \in {food_logs'[Len(food_logs')]} : food_logs' = Append(food_logs, r)]_vars

\* the other user's record was asked for and refused, and both records stay
C40_Witness ==
    /\ qr.del.called
    /\ ~qr.del.out
    /\ Len(food_logs) = 2
    /\ \E i \in 1..2 : food_logs[i].id = qr.del.log_id /\ food_logs[i].user # qr.del.user
    /\ users[qr.del.user].exists

====
